---- MODULE Spec2Model ----
(***************************************************************************)
(* Album authorization engine and invitation lifecycle of snapengine:      *)
(* the permission resolver, the role-change guard, album membership and    *)
(* the invitation state machine, as state machines over the relational     *)
(* store (albums, album_members, album_permission_overrides, invitations). *)
(***************************************************************************)
EXTENDS Integers, FiniteSets, Sequences, TLC

(***************************************************************************)
(* Bounds of the model.                                                    *)
(***************************************************************************)
\* rows of album_permission_overrides that may exist at once
MaxOverrides == 1
\* rows of invitations that may be created
MaxInvitations == 2
\* invitations without an email (shareable links) that may be created
MaxLinkInvitations == 1
\* largest maxUses an invitation is created with
MaxUsesBound == 2
\* last instant of the clock
MaxTime == 1

(***************************************************************************)
(* Domain enumerations (shared/constants).                                 *)
(***************************************************************************)
Users == {"u1", "u2", "u3"}
NoUser == "null"
Albums == {"a1"}

\* users.role of each user: u3 is the platform operator
SystemRoleOf(u) == IF u = "u3" THEN "admin" ELSE "user"
SystemRoles == {"user", "admin"}

ALBUM_ROLE == {"viewer", "contributor", "admin", "owner"}
NoMember == "none"

ALBUM_ROLE_RANK == [viewer |-> 1, contributor |-> 2, admin |-> 3, owner |-> 4]

\* ALBUM_ROLE_RANK[role] || 0
RankOrZero(role) == IF role \in DOMAIN ALBUM_ROLE_RANK THEN ALBUM_ROLE_RANK[role] ELSE 0

INVITATION_STATUS == {"pending", "accepted", "declined", "expired", "revoked"}

PERMISSION_ACTIONS ==
  { "album:view", "album:edit", "album:delete", "album:manage_settings",
    "member:add", "member:remove", "member:change_role",
    "photo:upload", "photo:delete", "photo:view_restricted",
    "comment:create", "comment:delete", "invitation:create" }

ROLE_PERMISSIONS ==
  [ viewer |-> {"album:view"},
    contributor |-> {"album:view", "photo:upload", "comment:create",
                     "photo:view_restricted"},
    admin |-> {"album:view", "album:edit", "album:manage_settings",
               "photo:upload", "photo:delete", "photo:view_restricted",
               "comment:create", "comment:delete", "member:add",
               "member:remove", "member:change_role", "invitation:create"},
    owner |-> {"album:view", "album:edit", "album:manage_settings",
               "album:delete", "photo:upload", "photo:delete",
               "photo:view_restricted", "comment:create", "comment:delete",
               "member:add", "member:remove", "member:change_role",
               "invitation:create"} ]

(***************************************************************************)
(* Role-change guard: the first throw reached, or "ok".                    *)
(***************************************************************************)
assertRoleChangeAllowed_NonStrict(requesterRole, targetRole, newRole) ==
  LET requesterRank == RankOrZero(requesterRole)
      targetRank == RankOrZero(targetRole)
      newRank == RankOrZero(newRole)
  IN  IF newRole = "owner" THEN "Forbidden"
      ELSE IF targetRank >= requesterRank THEN "Forbidden"
      ELSE IF newRank > requesterRank THEN "Forbidden"
      ELSE "ok"

assertRoleChangeAllowed(requesterRole, targetRole, newRole) ==
  LET requesterRank == RankOrZero(requesterRole)
      targetRank == RankOrZero(targetRole)
      newRank == RankOrZero(newRole)
  IN  IF newRole = "owner" THEN "Forbidden"
      ELSE IF targetRank >= requesterRank THEN "Forbidden"
      ELSE IF newRank >= requesterRank THEN "Forbidden"
      ELSE "ok"

(***************************************************************************)
(* State: the rows of the relational store, the in-flight acceptInvitation *)
(* calls, and the clock.                                                   *)
(***************************************************************************)
VARIABLES
  albums,       \* albums: [exists, ownerId, isPublic, publicToken, deleted] per album id
  members,      \* album_members: role of (album, user), or NoMember
  overrides,    \* album_permission_overrides: "grant"/"deny"/"none" per (album, user, action)
  invitations,  \* invitations: one record per invitation id
  calls,        \* in-flight acceptInvitation calls, one slot per request
  now,          \* the clock read by new Date()
  joined,       \* per invitation: memberships created by accepting it (history)
  guardArgs,    \* arguments of the last assertRoleChangeAllowed evaluation
  creating,     \* in-flight createInvitation calls, one slot per request
  acalls,       \* in-flight updateAlbum / deleteAlbum calls, one slot per request
  photos,       \* photos: [exists, albumId, uploadedById, visibilityType] per photo id
  allowlist,    \* photo_visibilities: the set of user ids allowed per photo
  vcalls,       \* in-flight visibility rewrites, one slot per request
  audit         \* album_activity_logs rows, the logActivity calls made, the last one's outcome

\* the media tables and the requests that write them
mediaVars == <<photos, allowlist, vcalls>>

vars == <<albums, members, overrides, invitations, calls, now, joined, guardArgs, creating, acalls, mediaVars, audit>>

\* the album tables and the requests that write them
albumVars == <<albums, members, overrides, invitations, calls, now, joined, guardArgs, creating, acalls>>

InvIds == 1..MaxInvitations
Calls == {"c1", "c2"}

\* publicToken is "null" or "tok" (some generated token)
NoAlbumRow ==
  [exists |-> FALSE, ownerId |-> NoUser, isPublic |-> FALSE, publicToken |-> "null", deleted |-> FALSE]

NoInvitation ==
  [ exists |-> FALSE, albumId |-> "a1", invitedById |-> NoUser, invitedEmail |-> "null",
    invitedRole |-> "viewer", status |-> "pending", expiresAt |-> 0,
    maxUses |-> 1, useCount |-> 0 ]

IdleCall == [pc |-> "idle", inv |-> 0, userId |-> NoUser, useCount |-> 0, res |-> "none"]

PhotoIds == {"p1", "p2"}
PHOTO_VISIBILITY == {"album_default", "restricted", "hidden"}
NoPhoto == [exists |-> FALSE, albumId |-> "a1", uploadedById |-> NoUser, visibilityType |-> "album_default"]
NoRows == [p \in PhotoIds |-> {}]

\* a visibility rewrite between its checks and the end of its transaction:
\* pc is the next statement, wrote whether the UPDATE of photos was issued,
\* del the photo_visibilities rows the DELETE has removed or is about to remove
IdleVCall ==
  [ pc |-> "idle", kind |-> "single", photoIds |-> {}, visibilityType |-> "album_default",
    allowed |-> {}, readType |-> "album_default", wrote |-> FALSE, del |-> NoRows ]

NoGuardArgs == [requesterRole |-> "none", targetRole |-> "none", newRole |-> "none", res |-> "none"]

\* users.email (the users that have registered with an address invitations are sent to)
Emails == {"e2"}
NoEmail == "null"
UserOfEmail(e) == IF e = "e2" THEN "u2" ELSE NoUser

\* Album.findByPk under the paranoid scope: soft-deleted rows are not found
AlbumFound(a) == albums[a].exists /\ ~albums[a].deleted

OverrideCount ==
  Cardinality({ x \in Albums \X Users \X PERMISSION_ACTIONS :
                  overrides[x[1]][x[2]][x[3]] # "none" })

(***************************************************************************)
(* resolvePermission: the result record of the first step that returns.    *)
(* member is the membership role the result carries (NoMember for null).   *)
(***************************************************************************)
Deny(reason) == [allowed |-> FALSE, reason |-> reason, member |-> NoMember]
Allow(reason, member) == [allowed |-> TRUE, reason |-> reason, member |-> member]

resolvePermission_RoleFirst(a, userId, action, systemRole) ==
  IF ~AlbumFound(a) THEN Deny("Album not found")
  ELSE IF systemRole = "admin" THEN Allow("System admin bypass", NoMember)
  ELSE IF userId # NoUser /\ albums[a].ownerId = userId THEN Allow("Album owner", NoMember)
  ELSE IF action = "album:view" /\ albums[a].isPublic THEN Allow("Public album", NoMember)
  ELSE IF userId = NoUser THEN Deny("Authentication required")
  ELSE IF members[a][userId] = NoMember THEN Deny("Not a member")
  ELSE IF action \in ROLE_PERMISSIONS[members[a][userId]]
       THEN Allow("Role permits", members[a][userId])
  ELSE IF overrides[a][userId][action] = "grant"
       THEN Allow("Explicit grant override", members[a][userId])
  ELSE Deny("Role does not permit")

resolvePermission_NoPublicShortcut(a, userId, action, systemRole) ==
  IF ~AlbumFound(a) THEN Deny("Album not found")
  ELSE IF systemRole = "admin" THEN Allow("System admin bypass", NoMember)
  ELSE IF userId # NoUser /\ albums[a].ownerId = userId THEN Allow("Album owner", NoMember)
  ELSE IF userId = NoUser THEN Deny("Authentication required")
  ELSE IF members[a][userId] = NoMember THEN Deny("Not a member")
  ELSE IF overrides[a][userId][action] # "none"
       THEN IF overrides[a][userId][action] = "grant"
            THEN Allow("Explicit grant override", members[a][userId])
            ELSE Deny("Explicit deny override")
  ELSE IF action \in ROLE_PERMISSIONS[members[a][userId]]
       THEN Allow("Role permits", members[a][userId])
  ELSE Deny("Role does not permit")

resolvePermission_OverrideIgnored(a, userId, action, systemRole) ==
  IF ~AlbumFound(a) THEN Deny("Album not found")
  ELSE IF systemRole = "admin" THEN Allow("System admin bypass", NoMember)
  ELSE IF userId # NoUser /\ albums[a].ownerId = userId THEN Allow("Album owner", NoMember)
  ELSE IF action = "album:view" /\ albums[a].isPublic THEN Allow("Public album", NoMember)
  ELSE IF userId = NoUser THEN Deny("Authentication required")
  ELSE IF members[a][userId] = NoMember THEN Deny("Not a member")
  ELSE IF action \in ROLE_PERMISSIONS[members[a][userId]]
       THEN Allow("Role permits", members[a][userId])
  ELSE Deny("Role does not permit")

resolvePermission_BypassBeforeLookup(a, userId, action, systemRole) ==
  IF systemRole = "admin" THEN Allow("System admin bypass", NoMember)
  ELSE IF userId # NoUser /\ albums[a].ownerId = userId THEN Allow("Album owner", NoMember)
  ELSE IF ~AlbumFound(a) THEN Deny("Album not found")
  ELSE IF action = "album:view" /\ albums[a].isPublic THEN Allow("Public album", NoMember)
  ELSE IF userId = NoUser THEN Deny("Authentication required")
  ELSE IF members[a][userId] = NoMember THEN Deny("Not a member")
  ELSE IF overrides[a][userId][action] # "none"
       THEN IF overrides[a][userId][action] = "grant"
            THEN Allow("Explicit grant override", members[a][userId])
            ELSE Deny("Explicit deny override")
  ELSE IF action \in ROLE_PERMISSIONS[members[a][userId]]
       THEN Allow("Role permits", members[a][userId])
  ELSE Deny("Role does not permit")

resolvePermission(a, userId, action, systemRole) ==
  IF ~AlbumFound(a) THEN Deny("Album not found")
  ELSE IF systemRole = "admin" THEN Allow("System admin bypass", NoMember)
  ELSE IF userId # NoUser /\ albums[a].ownerId = userId THEN Allow("Album owner", NoMember)
  ELSE IF action = "album:view" /\ albums[a].isPublic THEN Allow("Public album", NoMember)
  ELSE IF userId = NoUser THEN Deny("Authentication required")
  ELSE IF members[a][userId] = NoMember THEN Deny("Not a member")
  ELSE IF overrides[a][userId][action] # "none"
       THEN IF overrides[a][userId][action] = "grant"
            THEN Allow("Explicit grant override", members[a][userId])
            ELSE Deny("Explicit deny override")
  ELSE IF action \in ROLE_PERMISSIONS[members[a][userId]]
       THEN Allow("Role permits", members[a][userId])
  ELSE Deny("Role does not permit")

\* _buildAccessContext: the capability flags from the owner flag and the role's
\* permission set (the empty set when there is no effective role)
buildAccessContext(effectiveRole, isOwner, isPublicViewer) ==
  LET rolePerms == IF effectiveRole = NoMember THEN {} ELSE ROLE_PERMISSIONS[effectiveRole]
  IN  [ res |-> "ok", effectiveRole |-> effectiveRole, isOwner |-> isOwner,
        isPublicViewer |-> isPublicViewer,
        canEdit |-> isOwner \/ "album:edit" \in rolePerms,
        canDelete |-> isOwner \/ "album:delete" \in rolePerms,
        canManageMembers |-> isOwner \/ "member:add" \in rolePerms,
        canUploadPhoto |-> isOwner \/ "photo:upload" \in rolePerms,
        canComment |-> isOwner \/ "comment:create" \in rolePerms ]

\* the error thrown in place of a context
NoAccessContext(error) ==
  [ res |-> error, effectiveRole |-> NoMember, isOwner |-> FALSE, isPublicViewer |-> FALSE,
    canEdit |-> FALSE, canDelete |-> FALSE, canManageMembers |-> FALSE,
    canUploadPhoto |-> FALSE, canComment |-> FALSE ]

\* resolveAlbumAccess: the context returned, or the error thrown
resolveAlbumAccess(a, userId, systemRole) ==
  IF ~AlbumFound(a) THEN NoAccessContext("NotFound")
  ELSE IF systemRole = "admin" THEN buildAccessContext("owner", TRUE, FALSE)
  ELSE IF userId # NoUser /\ albums[a].ownerId = userId
       THEN buildAccessContext("owner", TRUE, FALSE)
  ELSE IF userId = NoUser /\ albums[a].isPublic THEN buildAccessContext(NoMember, FALSE, TRUE)
  ELSE IF userId = NoUser THEN NoAccessContext("Forbidden")
  ELSE IF members[a][userId] = NoMember
       THEN IF albums[a].isPublic THEN buildAccessContext(NoMember, FALSE, TRUE)
            ELSE NoAccessContext("Forbidden")
  ELSE buildAccessContext(members[a][userId], FALSE, FALSE)

\* assertPermission: "ok", or the error thrown (throwOnDeny)
assertPermission(a, userId, action, systemRole) ==
  IF ~AlbumFound(a) THEN "NotFound"
  ELSE IF resolvePermission(a, userId, action, systemRole).allowed THEN "ok"
  ELSE "Forbidden"

(***************************************************************************)
(* Album lifecycle (album service).                                        *)
(***************************************************************************)
NoOverrides == [act \in PERMISSION_ACTIONS |-> "none"]

(***************************************************************************)
(* The activity log.                                                       *)
(***************************************************************************)
\* the most logActivity calls a behaviour makes
MaxAudit == 4

\* the ACTIVITY_TYPE values the album and media handlers write
ACTIVITY_TYPE ==
  {"album.created", "album.updated", "album.deleted", "album.restored",
   "album.visibility_changed", "member.added", "member.removed", "member.role_changed",
   "photo.uploaded", "photo.deleted", "photo.visibility_changed"}

\* how AlbumActivityLog.create can fail: "rejected" before any statement is
\* sent (model validation), "statement" when the INSERT itself fails
LogFailures == {"rejected", "statement"}

\* behaviours that leave album_activity_logs out of the state
NoAuditTrail == [tracked |-> FALSE, rows |-> <<>>, attempts |-> 0, failed |-> "no"]
\* the empty album_activity_logs table
EmptyAuditTrail == [tracked |-> TRUE, rows |-> <<>>, attempts |-> 0, failed |-> "no"]

\* logActivity: AlbumActivityLog.create appends one row; an error is logged
\* and swallowed, never rethrown
logActivity(type) ==
  IF ~audit.tracked THEN audit' = audit
  ELSE /\ audit.attempts < MaxAudit
       /\ \/ audit' = [audit EXCEPT !.attempts = @ + 1, !.rows = Append(@, type),
                                     !.failed = "no"]
          \/ \E f \in LogFailures :
                audit' = [audit EXCEPT !.attempts = @ + 1, !.failed = f]

\* updateAlbum, activityType: a visibility transition is logged under its own type
updateAlbumActivityType(wasPublic, isPublic) ==
  IF isPublic # wasPublic THEN "album.visibility_changed" ELSE "album.updated"


\* createAlbum: the album row and the owner membership in one transaction
CreateAlbum(a, userId, isPublic) ==
  /\ ~albums[a].exists
  /\ albums' = [albums EXCEPT ![a] =
                  [exists |-> TRUE, ownerId |-> userId, isPublic |-> isPublic,
                   publicToken |-> IF isPublic THEN "tok" ELSE "null", deleted |-> FALSE]]
  /\ members' = [members EXCEPT ![a][userId] = "owner"]
  /\ UNCHANGED <<overrides, invitations, calls, now, joined, guardArgs, creating, acalls, mediaVars>>
  /\ logActivity("album.created")

\* updateAlbum, the visibility transition
UpdateAlbum(a, isPublic, userId) ==
  /\ assertPermission(a, userId, "album:edit", SystemRoleOf(userId)) = "ok"
  /\ albums' = [albums EXCEPT ![a] =
                  IF isPublic # albums[a].isPublic
                  THEN [@ EXCEPT !.isPublic = isPublic,
                                 !.publicToken = IF isPublic THEN "tok" ELSE "null"]
                  ELSE @]
  /\ UNCHANGED <<members, overrides, invitations, calls, now, joined, guardArgs, creating, acalls, mediaVars>>
  /\ logActivity(updateAlbumActivityType(albums[a].isPublic, isPublic))

\* deleteAlbum: soft delete, public URL disabled first
DeleteAlbum(a, userId) ==
  /\ assertPermission(a, userId, "album:delete", SystemRoleOf(userId)) = "ok"
  /\ albums' = [albums EXCEPT ![a] =
                  IF albums[a].publicToken # "null"
                  THEN [@ EXCEPT !.publicToken = "null", !.isPublic = FALSE, !.deleted = TRUE]
                  ELSE [@ EXCEPT !.deleted = TRUE]]
  /\ UNCHANGED <<members, overrides, invitations, calls, now, joined, guardArgs, creating, acalls, mediaVars>>
  /\ logActivity("album.deleted")

\* an updateAlbum or deleteAlbum call between Album.findByPk and its writes:
\* read is the row as loaded, isPublic the value asked for
IdleACall == [pc |-> "idle", albumId |-> "a1", read |-> NoAlbumRow, isPublic |-> FALSE]

\* updateAlbum up to Album.findByPk
UpdateAlbumBegin(c, a, isPublic, userId) ==
  /\ acalls[c].pc = "idle"
  /\ assertPermission(a, userId, "album:edit", SystemRoleOf(userId)) = "ok"
  /\ acalls' = [acalls EXCEPT ![c] =
                  [pc |-> "update", albumId |-> a, read |-> albums[a], isPublic |-> isPublic]]
  /\ UNCHANGED <<albums, members, overrides, invitations, calls, now, joined, guardArgs,
                 creating, mediaVars, audit>>

UpdateAlbumWrite_KeepsToken(c) ==
  /\ acalls[c].pc = "update"
  /\ albums' = [albums EXCEPT ![acalls[c].albumId] =
                  IF acalls[c].isPublic # acalls[c].read.isPublic
                  THEN [@ EXCEPT !.isPublic = acalls[c].isPublic,
                                 !.publicToken = IF acalls[c].isPublic THEN "tok" ELSE @]
                  ELSE @]
  /\ acalls' = [acalls EXCEPT ![c] = IdleACall]
  /\ UNCHANGED <<members, overrides, invitations, calls, now, joined, guardArgs,
                 creating, mediaVars>>
  /\ logActivity(updateAlbumActivityType(acalls[c].read.isPublic, acalls[c].isPublic))

\* updateAlbum, album.update(updates): isPublic and publicToken are written
\* together when the value asked for differs from the one loaded
UpdateAlbumWrite(c) ==
  /\ acalls[c].pc = "update"
  /\ albums' = [albums EXCEPT ![acalls[c].albumId] =
                  IF acalls[c].isPublic # acalls[c].read.isPublic
                  THEN [@ EXCEPT !.isPublic = acalls[c].isPublic,
                                 !.publicToken = IF acalls[c].isPublic THEN "tok" ELSE "null"]
                  ELSE @]
  /\ acalls' = [acalls EXCEPT ![c] = IdleACall]
  /\ UNCHANGED <<members, overrides, invitations, calls, now, joined, guardArgs,
                 creating, mediaVars>>
  /\ logActivity(updateAlbumActivityType(acalls[c].read.isPublic, acalls[c].isPublic))

\* deleteAlbum up to Album.findByPk
DeleteAlbumBegin(c, a, userId) ==
  /\ acalls[c].pc = "idle"
  /\ assertPermission(a, userId, "album:delete", SystemRoleOf(userId)) = "ok"
  /\ acalls' = [acalls EXCEPT ![c] =
                  [pc |-> "delete", albumId |-> a, read |-> albums[a], isPublic |-> FALSE]]
  /\ UNCHANGED <<albums, members, overrides, invitations, calls, now, joined, guardArgs,
                 creating, mediaVars, audit>>

\* deleteAlbum, album.update({ publicToken: null, isPublic: false }) when the
\* loaded row has a token (the fields that differ from the loaded row are
\* written), then album.destroy()
DeleteAlbumWrite(c) ==
  /\ acalls[c].pc = "delete"
  /\ albums' = [albums EXCEPT ![acalls[c].albumId] =
                  IF acalls[c].read.publicToken # "null"
                  THEN [@ EXCEPT !.publicToken = "null",
                                 !.isPublic = IF acalls[c].read.isPublic THEN FALSE ELSE @,
                                 !.deleted = TRUE]
                  ELSE [@ EXCEPT !.deleted = TRUE]]
  /\ acalls' = [acalls EXCEPT ![c] = IdleACall]
  /\ UNCHANGED <<members, overrides, invitations, calls, now, joined, guardArgs,
                 creating, mediaVars>>
  /\ logActivity("album.deleted")

\* getAlbumByPublicToken: Album.findOne({ publicToken, isPublic: true }), paranoid
getAlbumByPublicToken(token) ==
  IF \E a \in Albums : /\ albums[a].exists /\ ~albums[a].deleted
                        /\ albums[a].publicToken = token /\ albums[a].isPublic
  THEN "ok" ELSE "NotFound"

restoreAlbumResult(a, userId) ==
  IF ~albums[a].exists THEN "NotFound"
  ELSE IF ~albums[a].deleted THEN "Conflict"
  ELSE IF albums[a].ownerId # userId /\ SystemRoleOf(userId) # "admin" THEN "Forbidden"
  ELSE "ok"

RestoreAlbum(a, userId) ==
  /\ restoreAlbumResult(a, userId) = "ok"
  /\ albums' = [albums EXCEPT ![a].deleted = FALSE]
  /\ UNCHANGED <<members, overrides, invitations, calls, now, joined, guardArgs, creating, acalls, mediaVars>>
  /\ logActivity("album.restored")

(***************************************************************************)
(* Membership (album member service). Each ...Result operator is the       *)
(* handler's chain of checks: "ok", or the error of the first throw.       *)
(***************************************************************************)
addMemberResult(a, targetUserId, role, requesterId) ==
  LET systemRole == SystemRoleOf(requesterId)
      perm == assertPermission(a, requesterId, "member:add", systemRole)
      requesterMember == resolvePermission(a, requesterId, "member:add", systemRole).member
  IN  IF perm # "ok" THEN perm
      ELSE IF role = "owner" THEN "Forbidden"
      ELSE IF members[a][targetUserId] # NoMember THEN "Conflict"
      ELSE IF requesterMember # NoMember
              /\ assertRoleChangeAllowed(requesterMember, "viewer", role) # "ok"
           THEN "Forbidden"
      ELSE "ok"

AddMember(a, targetUserId, role, requesterId) ==
  /\ addMemberResult(a, targetUserId, role, requesterId) = "ok"
  /\ members' = [members EXCEPT ![a][targetUserId] = role]
  /\ UNCHANGED <<albums, overrides, invitations, calls, now, joined, guardArgs, creating, acalls, mediaVars>>
  /\ logActivity("member.added")

removeMemberResult_OwnerRemovable(a, targetUserId, requesterId) ==
  IF ~AlbumFound(a) THEN "NotFound"
  ELSE IF members[a][targetUserId] = NoMember THEN "NotFound"
  ELSE IF requesterId = targetUserId THEN "ok"
  ELSE LET perm == assertPermission(a, requesterId, "member:remove", SystemRoleOf(requesterId))
       IN  perm

removeMemberResult_NoRankCheck(a, targetUserId, requesterId) ==
  IF ~AlbumFound(a) THEN "NotFound"
  ELSE IF members[a][targetUserId] = NoMember THEN "NotFound"
  ELSE IF members[a][targetUserId] = "owner" THEN "Forbidden"
  ELSE IF requesterId = targetUserId THEN "ok"
  ELSE assertPermission(a, requesterId, "member:remove", SystemRoleOf(requesterId))

removeMemberResult(a, targetUserId, requesterId) ==
  IF ~AlbumFound(a) THEN "NotFound"
  ELSE IF members[a][targetUserId] = NoMember THEN "NotFound"
  ELSE IF members[a][targetUserId] = "owner" THEN "Forbidden"
  ELSE IF requesterId = targetUserId THEN "ok"
  ELSE LET perm == assertPermission(a, requesterId, "member:remove", SystemRoleOf(requesterId))
           requesterMember == members[a][requesterId]
       IN  IF perm # "ok" THEN perm
           ELSE IF requesterMember # NoMember
                   /\ ALBUM_ROLE_RANK[members[a][targetUserId]] >= ALBUM_ROLE_RANK[requesterMember]
                THEN "Forbidden"
           ELSE "ok"

\* targetMember.destroy(); the member's override rows go with it (ON DELETE CASCADE)
RemoveMember(a, targetUserId, requesterId) ==
  /\ removeMemberResult(a, targetUserId, requesterId) = "ok"
  /\ members' = [members EXCEPT ![a][targetUserId] = NoMember]
  /\ overrides' = [overrides EXCEPT ![a][targetUserId] = NoOverrides]
  /\ UNCHANGED <<albums, invitations, calls, now, joined, guardArgs, creating, acalls, mediaVars>>
  /\ logActivity("member.removed")

changeMemberRoleResult(a, targetUserId, newRole, requesterId) ==
  LET perm == assertPermission(a, requesterId, "member:change_role", SystemRoleOf(requesterId))
      requesterRole == IF members[a][requesterId] # NoMember
                       THEN members[a][requesterId] ELSE "owner"
  IN  IF perm # "ok" THEN perm
      ELSE IF members[a][targetUserId] = NoMember THEN "NotFound"
      ELSE IF members[a][targetUserId] = "owner" THEN "Forbidden"
      ELSE assertRoleChangeAllowed(requesterRole, members[a][targetUserId], newRole)

ChangeMemberRole(a, targetUserId, newRole, requesterId) ==
  /\ changeMemberRoleResult(a, targetUserId, newRole, requesterId) = "ok"
  /\ members' = [members EXCEPT ![a][targetUserId] = newRole]
  /\ UNCHANGED <<albums, overrides, invitations, calls, now, joined, guardArgs, creating, acalls, mediaVars>>
  /\ logActivity("member.role_changed")

setPermissionOverrideResult(a, targetUserId, action, requesterId) ==
  LET perm == assertPermission(a, requesterId, "album:manage_settings", SystemRoleOf(requesterId))
  IN  IF perm # "ok" THEN perm
      ELSE IF members[a][targetUserId] = NoMember THEN "NotFound"
      ELSE IF members[a][targetUserId] = "owner" THEN "Forbidden"
      ELSE IF action \notin PERMISSION_ACTIONS THEN "Validation"
      ELSE "ok"

\* findOrCreate on (albumMemberId, action), then update when the row existed
SetPermissionOverride(a, targetUserId, action, granted, requesterId) ==
  /\ setPermissionOverrideResult(a, targetUserId, action, requesterId) = "ok"
  /\ overrides[a][targetUserId][action] = "none" => OverrideCount < MaxOverrides
  /\ overrides' = [overrides EXCEPT ![a][targetUserId][action] =
                     IF granted THEN "grant" ELSE "deny"]
  /\ UNCHANGED <<albums, members, invitations, calls, now, joined, guardArgs, creating, acalls, mediaVars, audit>>

removePermissionOverrideResult(a, targetUserId, action, requesterId) ==
  LET perm == assertPermission(a, requesterId, "album:manage_settings", SystemRoleOf(requesterId))
  IN  IF perm # "ok" THEN perm
      ELSE IF members[a][targetUserId] = NoMember THEN "NotFound"
      ELSE IF overrides[a][targetUserId][action] = "none" THEN "NotFound"
      ELSE "ok"

RemovePermissionOverride(a, targetUserId, action, requesterId) ==
  /\ removePermissionOverrideResult(a, targetUserId, action, requesterId) = "ok"
  /\ overrides' = [overrides EXCEPT ![a][targetUserId][action] = "none"]
  /\ UNCHANGED <<albums, members, invitations, calls, now, joined, guardArgs, creating, acalls, mediaVars, audit>>

(***************************************************************************)
(* Invitation lifecycle (invitation service, Invitation model).            *)
(***************************************************************************)
\* Invitation.isValid
isValid(inv) == inv.status = "pending" /\ now < inv.expiresAt

isStale_Late(inv) == inv.status = "pending" /\ now > inv.expiresAt

\* Invitation.expireIfStale: whether the row is flipped to expired
isStale(inv) == inv.status = "pending" /\ now >= inv.expiresAt

FreeInvIds == { i \in DOMAIN invitations : ~invitations[i].exists }

createInvitationResult(a, requesterId, invitedRole, invitedEmail) ==
  LET perm == assertPermission(a, requesterId, "invitation:create", SystemRoleOf(requesterId))
      requesterMember == members[a][requesterId]
      existingUser == UserOfEmail(invitedEmail)
  IN  IF perm # "ok" THEN perm
      ELSE IF invitedRole = "owner" THEN "Forbidden"
      ELSE IF requesterMember # NoMember /\ requesterMember # "owner"
              /\ assertRoleChangeAllowed(requesterMember, "viewer", invitedRole) # "ok"
           THEN "Forbidden"
      ELSE IF invitedEmail # NoEmail /\ existingUser # NoUser
              /\ members[a][existingUser] # NoMember
           THEN "Conflict"
      ELSE "ok"

\* the pending invitations of the same album and email are revoked, then the row is created
CreateInvitation(a, requesterId, invitedRole, invitedEmail, maxUses, expiresIn) ==
  /\ createInvitationResult(a, requesterId, invitedRole, invitedEmail) = "ok"
  /\ FreeInvIds # {}
  /\ LET id == CHOOSE i \in FreeInvIds : \A j \in FreeInvIds : i <= j
         superseded == [ i \in DOMAIN invitations |->
                           IF /\ invitedEmail # NoEmail
                              /\ invitations[i].exists
                              /\ invitations[i].albumId = a
                              /\ invitations[i].invitedEmail = invitedEmail
                              /\ invitations[i].status = "pending"
                           THEN [invitations[i] EXCEPT !.status = "revoked"]
                           ELSE invitations[i] ]
     IN  invitations' = [superseded EXCEPT ![id] =
                           [ exists |-> TRUE, albumId |-> a, invitedById |-> requesterId,
                             invitedEmail |-> invitedEmail, invitedRole |-> invitedRole,
                             status |-> "pending", expiresAt |-> now + expiresIn,
                             maxUses |-> maxUses, useCount |-> 0 ]]
  /\ UNCHANGED <<albums, members, overrides, calls, now, joined, guardArgs, creating, acalls, mediaVars, audit>>

\* invitations rows created without an email
LinkCount ==
  Cardinality({ i \in DOMAIN invitations :
                  invitations[i].exists /\ invitations[i].invitedEmail = NoEmail })

IdleCreate ==
  [ pc |-> "idle", albumId |-> "a1", requesterId |-> NoUser, invitedEmail |-> NoEmail,
    invitedRole |-> "viewer", maxUses |-> 1 ]

\* createInvitation with an email, up to Invitation.update: the checks pass and the
\* pending invitations of the same album and email are revoked (no transaction is open)
CreateInvitationRevoke(c, a, requesterId, invitedRole, invitedEmail, maxUses) ==
  /\ creating[c].pc = "idle"
  /\ invitedEmail # NoEmail
  /\ createInvitationResult(a, requesterId, invitedRole, invitedEmail) = "ok"
  /\ invitations' = [ i \in DOMAIN invitations |->
                        IF /\ invitations[i].exists
                           /\ invitations[i].albumId = a
                           /\ invitations[i].invitedEmail = invitedEmail
                           /\ invitations[i].status = "pending"
                        THEN [invitations[i] EXCEPT !.status = "revoked"]
                        ELSE invitations[i] ]
  /\ creating' = [creating EXCEPT ![c] =
                    [pc |-> "insert", albumId |-> a, requesterId |-> requesterId,
                     invitedEmail |-> invitedEmail,
                     invitedRole |-> invitedRole, maxUses |-> maxUses]]
  /\ UNCHANGED <<albums, members, overrides, calls, now, joined, guardArgs, acalls, mediaVars, audit>>

\* createInvitation with an email, Invitation.create: the new pending row
CreateInvitationInsert(c, expiresIn) ==
  /\ creating[c].pc = "insert"
  /\ FreeInvIds # {}
  /\ LET id == CHOOSE i \in FreeInvIds : \A j \in FreeInvIds : i <= j
     IN  invitations' = [invitations EXCEPT ![id] =
                           [ exists |-> TRUE, albumId |-> creating[c].albumId,
                             invitedById |-> creating[c].requesterId,
                             invitedEmail |-> creating[c].invitedEmail,
                             invitedRole |-> creating[c].invitedRole,
                             status |-> "pending", expiresAt |-> now + expiresIn,
                             maxUses |-> creating[c].maxUses, useCount |-> 0 ]]
  /\ creating' = [creating EXCEPT ![c] = IdleCreate]
  /\ UNCHANGED <<albums, members, overrides, calls, now, joined, guardArgs, acalls, mediaVars, audit>>

\* previewInvitation: the lazy expiry is its only write
previewInvitationResult(i) ==
  IF ~invitations[i].exists THEN "InvalidToken"
  ELSE IF isStale(invitations[i]) THEN "Gone"
  ELSE IF invitations[i].status = "revoked" THEN "Gone"
  ELSE IF invitations[i].status = "accepted" /\ invitations[i].maxUses = 1 THEN "Gone"
  ELSE "ok"

PreviewInvitation(i) ==
  /\ invitations[i].exists
  /\ isStale(invitations[i])
  /\ invitations' = [invitations EXCEPT ![i].status = "expired"]
  /\ UNCHANGED <<albums, members, overrides, calls, now, joined, guardArgs, creating, acalls, mediaVars, audit>>

\* acceptInvitation up to the transaction: lookup, lazy expiry, validity, membership check
acceptInvitationCheck(i, userId) ==
  IF ~invitations[i].exists THEN "InvalidToken"
  ELSE IF isStale(invitations[i]) THEN "Gone"
  ELSE IF ~isValid(invitations[i]) THEN "Gone"
  ELSE IF members[invitations[i].albumId][userId] # NoMember THEN "Conflict"
  ELSE "ok"

\* the call is rejected (Gone) at the lazy expiry, which persists status = expired
AcceptExpire(c, i, userId) ==
  /\ calls[c].pc = "idle"
  /\ invitations[i].exists
  /\ isStale(invitations[i])
  /\ invitations' = [invitations EXCEPT ![i].status = "expired"]
  /\ UNCHANGED <<albums, members, overrides, calls, now, joined, guardArgs, creating, acalls, mediaVars, audit>>

\* the checks pass: the call holds the invitation instance it read and opens the transaction
AcceptBegin(c, i, userId) ==
  /\ calls[c].pc = "idle"
  /\ acceptInvitationCheck(i, userId) = "ok"
  /\ calls' = [calls EXCEPT ![c] =
                 [pc |-> "tx", inv |-> i, userId |-> userId,
                  useCount |-> invitations[i].useCount, res |-> "none"]]
  /\ UNCHANGED <<albums, members, overrides, invitations, now, joined, guardArgs, creating, acalls, mediaVars, audit>>

\* status written by the transaction, from the instance read before it
newStatus(maxUses, newUseCount) ==
  IF maxUses # 0 /\ newUseCount >= maxUses THEN "accepted" ELSE "pending"

\* the transaction commits: AlbumMember.create, then invitation.update from the instance read
AcceptCommit(c) ==
  LET i == calls[c].inv
      inv == invitations[i]
      userId == calls[c].userId
      newUseCount == calls[c].useCount + 1
  IN  /\ calls[c].pc = "tx"
      /\ members[inv.albumId][userId] = NoMember
      /\ members' = [members EXCEPT ![inv.albumId][userId] = inv.invitedRole]
      /\ invitations' = [invitations EXCEPT
                           ![i].useCount = newUseCount,
                           ![i].status = newStatus(inv.maxUses, newUseCount)]
      /\ joined' = [joined EXCEPT ![i] = @ + 1]
      /\ calls' = [calls EXCEPT ![c] = [IdleCall EXCEPT !.res = "ok"]]
      /\ UNCHANGED <<albums, overrides, now, guardArgs, creating, acalls, mediaVars>>
      /\ logActivity("member.added")

\* normalizeError of the error a rolled-back transaction rethrows
normalizeError(name) ==
  IF name \in {"SequelizeValidationError", "SequelizeUniqueConstraintError"} THEN "Validation"
  ELSE IF name = "SequelizeForeignKeyConstraintError" THEN "Validation"
  ELSE IF name = "SequelizeDatabaseError" THEN "Internal"
  ELSE "Internal"

\* AlbumMember.create hits idx_album_members_unique: rollback, the error is rethrown
AcceptUniqueViolation(c) ==
  LET inv == invitations[calls[c].inv]
  IN  /\ calls[c].pc = "tx"
      /\ members[inv.albumId][calls[c].userId] # NoMember
      /\ calls' = [calls EXCEPT ![c] =
                     [IdleCall EXCEPT !.res = normalizeError("SequelizeUniqueConstraintError")]]
      /\ UNCHANGED <<albums, members, overrides, invitations, now, joined, guardArgs, creating, acalls, mediaVars, audit>>

\* any other failure inside the transactional body: rollback, the error is rethrown
AcceptFail(c) ==
  /\ calls[c].pc = "tx"
  /\ calls' = [calls EXCEPT ![c] = [IdleCall EXCEPT !.res = normalizeError("SequelizeDatabaseError")]]
  /\ UNCHANGED <<albums, members, overrides, invitations, now, joined, guardArgs, creating, acalls, mediaVars, audit>>

declineInvitationResult(i) ==
  IF ~invitations[i].exists THEN "InvalidToken"
  ELSE IF ~isValid(invitations[i]) THEN "Gone"
  ELSE "ok"

DeclineInvitation(i, userId) ==
  /\ declineInvitationResult(i) = "ok"
  /\ invitations' = [invitations EXCEPT ![i].status = "declined"]
  /\ UNCHANGED <<albums, members, overrides, calls, now, joined, guardArgs, creating, acalls, mediaVars, audit>>

revokeInvitationResult(i, a, requesterId) ==
  LET perm == assertPermission(a, requesterId, "invitation:create", SystemRoleOf(requesterId))
  IN  IF perm # "ok" THEN perm
      ELSE IF ~(invitations[i].exists /\ invitations[i].albumId = a) THEN "NotFound"
      ELSE IF invitations[i].status # "pending" THEN "Conflict"
      ELSE "ok"

RevokeInvitation(i, a, requesterId) ==
  /\ revokeInvitationResult(i, a, requesterId) = "ok"
  /\ invitations' = [invitations EXCEPT ![i].status = "revoked"]
  /\ UNCHANGED <<albums, members, overrides, calls, now, joined, guardArgs, creating, acalls, mediaVars, audit>>

\* time passes
Tick ==
  /\ now < MaxTime
  /\ now' = now + 1
  /\ UNCHANGED <<albums, members, overrides, invitations, calls, joined, guardArgs, creating, acalls, mediaVars, audit>>

(***************************************************************************)
(* Photos and per-photo visibility (photo service, photo visibility        *)
(* service, photo bulk service).                                           *)
(***************************************************************************)
Range(seq) == { seq[k] : k \in 1..Len(seq) }

\* uploadPhoto: Photo.create with the default visibility
UploadPhoto(p, a, userId) ==
  /\ ~photos[p].exists
  /\ assertPermission(a, userId, "photo:upload", SystemRoleOf(userId)) = "ok"
  /\ photos' = [photos EXCEPT ![p] =
                  [exists |-> TRUE, albumId |-> a, uploadedById |-> userId,
                   visibilityType |-> "album_default"]]
  /\ UNCHANGED <<albumVars, allowlist, vcalls>>
  /\ logActivity("photo.uploaded")

resolvePhotoVisibility_NoUploaderBypass(p, userId, albumOwnerId) ==
  IF ~photos[p].exists THEN [res |-> "NotFound", allowed |-> FALSE]
  ELSE IF userId # NoUser /\ userId = albumOwnerId THEN [res |-> "ok", allowed |-> TRUE]
  ELSE IF photos[p].visibilityType = "album_default" THEN [res |-> "ok", allowed |-> TRUE]
  ELSE IF userId = NoUser THEN [res |-> "ok", allowed |-> FALSE]
  ELSE IF photos[p].visibilityType = "hidden" THEN [res |-> "ok", allowed |-> FALSE]
  ELSE IF userId \in allowlist[p] THEN [res |-> "ok", allowed |-> TRUE]
  ELSE [res |-> "ok", allowed |-> FALSE]

\* resolvePhotoVisibility: NotFound, or the allowed flag of the first step that returns
resolvePhotoVisibility(p, userId, albumOwnerId) ==
  IF ~photos[p].exists THEN [res |-> "NotFound", allowed |-> FALSE]
  ELSE IF userId # NoUser /\ (userId = albumOwnerId \/ userId = photos[p].uploadedById)
       THEN [res |-> "ok", allowed |-> TRUE]
  ELSE IF photos[p].visibilityType = "album_default" THEN [res |-> "ok", allowed |-> TRUE]
  ELSE IF userId = NoUser THEN [res |-> "ok", allowed |-> FALSE]
  ELSE IF photos[p].visibilityType = "hidden" THEN [res |-> "ok", allowed |-> FALSE]
  ELSE IF userId \in allowlist[p] THEN [res |-> "ok", allowed |-> TRUE]
  ELSE [res |-> "ok", allowed |-> FALSE]

\* a column a WHERE clause leaves unconstrained
AnyValue == "any"

\* the empty WHERE clause {}: one alternative with no condition
NoCondition == [visibilityType |-> AnyValue, uploadedById |-> AnyValue, allowlistUserId |-> AnyValue]

buildVisibilityFilter_NoUploader(userId, albumOwnerId) ==
  IF userId # NoUser /\ albumOwnerId # NoUser /\ userId = albumOwnerId THEN {NoCondition}
  ELSE IF userId = NoUser
       THEN {[NoCondition EXCEPT !.visibilityType = "album_default"]}
  ELSE { [NoCondition EXCEPT !.visibilityType = "album_default"],
         [NoCondition EXCEPT !.visibilityType = "hidden", !.uploadedById = userId],
         [NoCondition EXCEPT !.visibilityType = "restricted", !.allowlistUserId = userId] }

\* buildVisibilityFilter: the WHERE clause as the set of its Op.or alternatives,
\* each a conjunction of column conditions
buildVisibilityFilter(userId, albumOwnerId) ==
  IF userId # NoUser /\ albumOwnerId # NoUser /\ userId = albumOwnerId THEN {NoCondition}
  ELSE IF userId = NoUser
       THEN {[NoCondition EXCEPT !.visibilityType = "album_default"]}
  ELSE { [NoCondition EXCEPT !.visibilityType = "album_default"],
         [NoCondition EXCEPT !.visibilityType = "hidden", !.uploadedById = userId],
         [NoCondition EXCEPT !.visibilityType = "restricted", !.uploadedById = userId],
         [NoCondition EXCEPT !.visibilityType = "restricted", !.allowlistUserId = userId] }

\* buildVisibilityInclude: the photo_visibilities rows left-joined to photo p,
\* only those of userId when there is one
buildVisibilityInclude(p, userId) ==
  IF userId # NoUser THEN allowlist[p] \cap {userId} ELSE allowlist[p]

\* the row of photo p, joined as buildVisibilityInclude says, satisfies the clause
satisfiesWhere(p, where, userId) ==
  \E d \in where :
    /\ d.visibilityType = AnyValue \/ photos[p].visibilityType = d.visibilityType
    /\ d.uploadedById = AnyValue \/ photos[p].uploadedById = d.uploadedById
    /\ d.allowlistUserId = AnyValue
         \/ \E row \in buildVisibilityInclude(p, userId) : row = d.allowlistUserId

\* AlbumMember.findAll({ albumId, userId in allowedUserIds }): one row per member found
foundUserIds(a, allowedUserIds) ==
  { u \in Range(allowedUserIds) : members[a][u] # NoMember }

\* allowedUserIds.filter(id => !foundUserIds.includes(id)), as reported in the error
invalidUserIds(a, allowedUserIds) ==
  { u \in Range(allowedUserIds) : u \notin foundUserIds(a, allowedUserIds) }

\* setPhotoVisibility up to the transaction: "ok", or the error of the first throw
setPhotoVisibilityResult(p, visibilityType, allowedUserIds, userId, systemRole) ==
  IF visibilityType \notin PHOTO_VISIBILITY THEN "Validation"
  ELSE IF ~photos[p].exists THEN "NotFound"
  ELSE LET isUploader == photos[p].uploadedById = userId
           isAlbumAdmin == resolvePermission(photos[p].albumId, userId, "photo:delete",
                                             systemRole).allowed
       IN  IF ~isUploader /\ ~isAlbumAdmin THEN "Forbidden"
           ELSE IF visibilityType = "restricted" /\ Len(allowedUserIds) = 0 THEN "Validation"
           ELSE IF visibilityType # "restricted" /\ Len(allowedUserIds) > 0 THEN "Validation"
           ELSE IF /\ visibilityType = "restricted"
                   /\ Cardinality(foundUserIds(photos[p].albumId, allowedUserIds))
                        # Len(allowedUserIds)
                THEN "Validation"
           ELSE "ok"

\* the request body schema of both visibility routes: a known type, and
\* allowedUserIds non-empty for restricted, empty otherwise
visibilityBodyValid(visibilityType, allowedUserIds) ==
  /\ visibilityType \in PHOTO_VISIBILITY
  /\ IF visibilityType = "restricted" THEN Len(allowedUserIds) >= 1
     ELSE Len(allowedUserIds) = 0

\* PATCH photo visibility: validate(body), then the service
updatePhotoVisibilityRequest(p, visibilityType, allowedUserIds, userId) ==
  IF ~visibilityBodyValid(visibilityType, allowedUserIds) THEN "Validation"
  ELSE setPhotoVisibilityResult(p, visibilityType, allowedUserIds, userId,
                                SystemRoleOf(userId))

\* Photo.findAll({ id in photoIds, albumId })
photosFound(a, photoIds) ==
  { p \in photoIds : photos[p].exists /\ photos[p].albumId = a }

deniedPhotoIds_FirstOnly(a, photoIds, userId, systemRole) ==
  LET isAlbumAdmin == resolvePermission(a, userId, "photo:upload", systemRole).allowed
  IN  { p \in photosFound(a, photoIds) \cap {"p1"} :
          photos[p].uploadedById # userId /\ ~isAlbumAdmin }

\* the photos of the batch the actor neither uploaded nor may change as album admin
deniedPhotoIds(a, photoIds, userId, systemRole) ==
  LET isAlbumAdmin == resolvePermission(a, userId, "photo:upload", systemRole).allowed
  IN  { p \in photosFound(a, photoIds) : photos[p].uploadedById # userId /\ ~isAlbumAdmin }

\* bulkChangeVisibility up to the transaction: "ok", or the error of the first throw
bulkChangeVisibilityResult(a, photoIds, visibilityType, allowedUserIds, userId, systemRole) ==
  IF photoIds = {} THEN "Validation"
  ELSE IF visibilityType \notin PHOTO_VISIBILITY THEN "Validation"
  ELSE IF visibilityType = "restricted" /\ Len(allowedUserIds) = 0 THEN "Validation"
  ELSE IF photosFound(a, photoIds) # photoIds THEN "NotFound"
  ELSE IF deniedPhotoIds(a, photoIds, userId, systemRole) # {} THEN "Forbidden"
  ELSE IF /\ visibilityType = "restricted"
          /\ Cardinality(foundUserIds(a, allowedUserIds)) # Len(allowedUserIds)
       THEN "Validation"
  ELSE "ok"

\* bulk visibility route: validate(body), then the service
bulkChangeVisibilityRequest(a, photoIds, visibilityType, allowedUserIds, userId) ==
  IF photoIds = {} \/ ~visibilityBodyValid(visibilityType, allowedUserIds) THEN "Validation"
  ELSE bulkChangeVisibilityResult(a, photoIds, visibilityType, allowedUserIds, userId,
                                  SystemRoleOf(userId))

\* setPhotoVisibility when no other rewrite overlaps it: the checks, then the
\* transaction from its first statement to its commit
SetPhotoVisibility(p, visibilityType, allowedUserIds, userId) ==
  /\ setPhotoVisibilityResult(p, visibilityType, allowedUserIds, userId,
                              SystemRoleOf(userId)) = "ok"
  /\ photos' = [photos EXCEPT ![p].visibilityType = visibilityType]
  /\ allowlist' = [allowlist EXCEPT ![p] =
                     IF visibilityType = "restricted" THEN Range(allowedUserIds) ELSE {}]
  /\ UNCHANGED <<albumVars, vcalls>>

\* updatePhotoVisibility: setPhotoVisibility, then the activity log entry
UpdatePhotoVisibility(p, visibilityType, allowedUserIds, userId) ==
  /\ SetPhotoVisibility(p, visibilityType, allowedUserIds, userId)
  /\ logActivity("photo.visibility_changed")

\* COMMIT of a transaction in which logActivity ran: a statement that failed
\* inside the transaction has aborted it, and COMMIT then rolls it back
\* without raising an error
commitApplies == audit'.failed # "statement"

\* bulkChangeVisibility when no other rewrite overlaps it: the checks, the
\* three statements, logActivity inside the transaction, commit
BulkChangeVisibility(a, photoIds, visibilityType, allowedUserIds, userId) ==
  /\ bulkChangeVisibilityResult(a, photoIds, visibilityType, allowedUserIds, userId,
                                SystemRoleOf(userId)) = "ok"
  /\ logActivity("photo.visibility_changed")
  /\ photos' = [p \in PhotoIds |->
                  IF p \in photoIds /\ commitApplies
                  THEN [photos[p] EXCEPT !.visibilityType = visibilityType]
                  ELSE photos[p]]
  /\ allowlist' = [p \in PhotoIds |->
                     IF p \in photoIds /\ commitApplies
                     THEN (IF visibilityType = "restricted" THEN Range(allowedUserIds) ELSE {})
                     ELSE allowlist[p]]
  /\ UNCHANGED <<albumVars, vcalls>>

\* the requests whose transaction is open beside call c
OtherCalls(c) == { d \in Calls : d # c /\ vcalls[d].pc # "idle" }

\* the photos rows another open transaction has updated and still locks
lockedPhotos(c) ==
  UNION { IF vcalls[d].wrote THEN vcalls[d].photoIds ELSE {} : d \in OtherCalls(c) }

\* the photo_visibilities rows of photo p another open transaction has deleted
lockedRows(c, p) ==
  UNION { IF vcalls[d].pc \in {"insert", "commit"} THEN vcalls[d].del[p] ELSE {}
          : d \in OtherCalls(c) }

\* the photo_visibilities rows of photo p another open transaction has inserted
pendingRows(c, p) ==
  UNION { IF /\ vcalls[d].pc = "commit" /\ vcalls[d].visibilityType = "restricted"
             /\ p \in vcalls[d].photoIds
          THEN vcalls[d].allowed ELSE {}
          : d \in OtherCalls(c) }

\* setPhotoVisibility: the checks pass and the transaction begins
SetPhotoVisibilityBegin(c, p, visibilityType, allowedUserIds, userId) ==
  /\ vcalls[c].pc = "idle"
  /\ setPhotoVisibilityResult(p, visibilityType, allowedUserIds, userId,
                              SystemRoleOf(userId)) = "ok"
  /\ vcalls' = [vcalls EXCEPT ![c] =
                  [ pc |-> "update", kind |-> "single", photoIds |-> {p},
                    visibilityType |-> visibilityType, allowed |-> Range(allowedUserIds),
                    readType |-> photos[p].visibilityType, wrote |-> FALSE,
                    del |-> NoRows ]]
  /\ UNCHANGED <<albumVars, photos, allowlist, audit>>

\* bulkChangeVisibility: the checks pass and the transaction begins
BulkChangeVisibilityBegin(c, a, photoIds, visibilityType, allowedUserIds, userId) ==
  /\ vcalls[c].pc = "idle"
  /\ bulkChangeVisibilityResult(a, photoIds, visibilityType, allowedUserIds, userId,
                                SystemRoleOf(userId)) = "ok"
  /\ vcalls' = [vcalls EXCEPT ![c] =
                  [ pc |-> "update", kind |-> "bulk", photoIds |-> photoIds,
                    visibilityType |-> visibilityType, allowed |-> Range(allowedUserIds),
                    readType |-> visibilityType, wrote |-> FALSE, del |-> NoRows ]]
  /\ UNCHANGED <<albumVars, photos, allowlist, audit>>

\* photo.update({ visibilityType }) on the loaded instance issues no statement
\* when the value read is the value given; Photo.update(...) always does
skipsUpdate(v) == v.kind = "single" /\ v.readType = v.visibilityType

\* the UPDATE of photos: waits for the row locks, then holds them to the end
VisibilityUpdate(c) ==
  /\ vcalls[c].pc = "update"
  /\ IF skipsUpdate(vcalls[c])
     THEN vcalls' = [vcalls EXCEPT ![c].pc = "destroy"]
     ELSE /\ vcalls[c].photoIds \cap lockedPhotos(c) = {}
          /\ vcalls' = [vcalls EXCEPT ![c].pc = "destroy", ![c].wrote = TRUE]
  /\ UNCHANGED <<albumVars, photos, allowlist, audit>>

\* PhotoVisibility.destroy: the DELETE sees the rows committed when it starts
\* and waits on those another open transaction has deleted
VisibilityDestroy(c) ==
  /\ vcalls[c].pc = "destroy"
  /\ LET seen == [p \in PhotoIds |->
                    IF p \in vcalls[c].photoIds THEN allowlist[p] ELSE {}]
         blocked == \E p \in PhotoIds : seen[p] \cap lockedRows(c, p) # {}
     IN  vcalls' = [vcalls EXCEPT ![c].del = seen,
                                  ![c].pc = IF blocked THEN "wait" ELSE "insert"]
  /\ UNCHANGED <<albumVars, photos, allowlist, audit>>

\* the DELETE goes on once the transactions it waited on have ended
VisibilityDestroyResume(c) ==
  /\ vcalls[c].pc = "wait"
  /\ \A p \in PhotoIds : vcalls[c].del[p] \cap lockedRows(c, p) = {}
  /\ vcalls' = [vcalls EXCEPT ![c].pc = "insert"]
  /\ UNCHANGED <<albumVars, photos, allowlist, audit>>

\* the committed rows the INSERT of call c collides with
collidingRows(c, p) ==
  IF p \in vcalls[c].photoIds /\ vcalls[c].visibilityType = "restricted"
  THEN vcalls[c].allowed \cap (allowlist[p] \ vcalls[c].del[p])
  ELSE {}

\* PhotoVisibility.bulkCreate: the rows photoIds x allowedUserIds
VisibilityInsert(c) ==
  /\ vcalls[c].pc = "insert"
  /\ \A p \in vcalls[c].photoIds :
        vcalls[c].visibilityType = "restricted"
          => vcalls[c].allowed \cap pendingRows(c, p) = {}
  /\ \A p \in PhotoIds : collidingRows(c, p) = {}
  /\ vcalls' = [vcalls EXCEPT ![c].pc = "commit"]
  /\ UNCHANGED <<albumVars, photos, allowlist, audit>>

\* the unique index on (photo_id, user_id) rejects the INSERT: rollback, rethrow
VisibilityInsertConflict(c) ==
  /\ vcalls[c].pc = "insert"
  /\ \E p \in PhotoIds : collidingRows(c, p) # {}
  /\ vcalls' = [vcalls EXCEPT ![c] = IdleVCall]
  /\ UNCHANGED <<albumVars, photos, allowlist, audit>>

\* a statement of the transaction fails: rollback, rethrow
VisibilityRollback(c) ==
  /\ vcalls[c].pc \in {"update", "destroy", "wait", "insert", "commit"}
  /\ vcalls' = [vcalls EXCEPT ![c] = IdleVCall]
  /\ UNCHANGED <<albumVars, photos, allowlist, audit>>

\* the end of the transaction. bulkChangeVisibility calls logActivity inside
\* it and then commits; updatePhotoVisibility calls logActivity after
\* setPhotoVisibility has committed. transaction.commit(): the statements
\* issued take effect; a DELETE that waited on this transaction finds its
\* rows gone
VisibilityCommit(c) ==
  /\ vcalls[c].pc = "commit"
  /\ logActivity("photo.visibility_changed")
  /\ LET applies == vcalls[c].kind = "single" \/ commitApplies
     IN  /\ photos' = [p \in PhotoIds |->
                         IF p \in vcalls[c].photoIds /\ vcalls[c].wrote /\ applies
                         THEN [photos[p] EXCEPT !.visibilityType = vcalls[c].visibilityType]
                         ELSE photos[p]]
         /\ allowlist' = [p \in PhotoIds |->
                            IF p \in vcalls[c].photoIds /\ applies
                            THEN (allowlist[p] \ vcalls[c].del[p])
                                   \cup (IF vcalls[c].visibilityType = "restricted"
                                         THEN vcalls[c].allowed ELSE {})
                            ELSE allowlist[p]]
         /\ vcalls' = [d \in Calls |->
                         IF d = c THEN IdleVCall
                         ELSE IF vcalls[d].pc = "wait" /\ applies
                              THEN [vcalls[d] EXCEPT !.del =
                                      [p \in PhotoIds |-> vcalls[d].del[p] \ vcalls[c].del[p]]]
                              ELSE vcalls[d]]
  /\ UNCHANGED albumVars

(***************************************************************************)
(* The role-change guard applied to arbitrary role names.                  *)
(***************************************************************************)
\* role names handed to the guard: the album roles and a name outside ALBUM_ROLE_RANK
GuardInputs == ALBUM_ROLE \cup {"guest"}

CheckRoleChange(requesterRole, targetRole, newRole) ==
  /\ guardArgs' = [requesterRole |-> requesterRole, targetRole |-> targetRole,
                   newRole |-> newRole,
                   res |-> assertRoleChangeAllowed(requesterRole, targetRole, newRole)]
  /\ UNCHANGED <<albums, members, overrides, invitations, calls, now, joined, creating, acalls, mediaVars, audit>>

(***************************************************************************)
(* Specifications.                                                         *)
(***************************************************************************)
InitStore ==
  /\ albums = [a \in Albums |-> NoAlbumRow]
  /\ members = [a \in Albums |-> [u \in Users |-> NoMember]]
  /\ overrides = [a \in Albums |-> [u \in Users |-> NoOverrides]]
  /\ invitations = [i \in InvIds |-> NoInvitation]
  /\ calls = [c \in Calls |-> IdleCall]
  /\ now = 0
  /\ joined = [i \in InvIds |-> 0]
  /\ guardArgs = NoGuardArgs
  /\ creating = [c \in Calls |-> IdleCreate]
  /\ acalls = [c \in Calls |-> IdleACall]
  /\ photos = [p \in PhotoIds |-> NoPhoto]
  /\ allowlist = [p \in PhotoIds |-> {}]
  /\ vcalls = [c \in Calls |-> IdleVCall]

\* the state after construction, album_activity_logs left out
Init == InitStore /\ audit = NoAuditTrail

\* the state after construction, with the empty album_activity_logs table
InitAudit == InitStore /\ audit = EmptyAuditTrail

\* users that create albums
Creators == {"u1"}
\* expiresInMs choices, in clock instants
ExpiresIn == {1}

MemberNext ==
  \/ \E a \in Albums, t \in Users, r \in ALBUM_ROLE, u \in Users : AddMember(a, t, r, u)
  \/ \E a \in Albums, t \in Users, u \in Users : RemoveMember(a, t, u)
  \/ \E a \in Albums, t \in Users, r \in ALBUM_ROLE, u \in Users : ChangeMemberRole(a, t, r, u)

InvitationNext ==
  \/ \E a \in Albums, u \in Users, r \in ALBUM_ROLE, m \in 1..MaxUsesBound, x \in ExpiresIn :
        LinkCount < MaxLinkInvitations /\ CreateInvitation(a, u, r, NoEmail, m, x)
  \/ \E i \in InvIds : PreviewInvitation(i)
  \/ \E c \in Calls, i \in InvIds, u \in Users : AcceptExpire(c, i, u)
  \/ \E c \in Calls, i \in InvIds, u \in Users : AcceptBegin(c, i, u)
  \/ \E c \in Calls : AcceptCommit(c)
  \/ \E c \in Calls : AcceptUniqueViolation(c)
  \/ \E c \in Calls : AcceptFail(c)
  \/ \E i \in InvIds, u \in Users : DeclineInvitation(i, u)
  \/ \E i \in InvIds, a \in Albums, u \in Users : RevokeInvitation(i, a, u)
  \/ Tick

\* membership and the invitation lifecycle, with concurrent acceptInvitation calls
Next ==
  \/ \E a \in Albums, u \in Creators : CreateAlbum(a, u, FALSE)
  \/ MemberNext
  \/ InvitationNext

Spec == Init /\ [][Next]_vars

\* the operations that create, change or delete album_members rows, with one
\* acceptInvitation call in flight at a time
MembersNext ==
  \/ \E a \in Albums, u \in Creators : CreateAlbum(a, u, FALSE)
  \/ MemberNext
  \/ \E a \in Albums, u \in Users, r \in ALBUM_ROLE, m \in 1..MaxUsesBound, x \in ExpiresIn :
        LinkCount < MaxLinkInvitations /\ CreateInvitation(a, u, r, NoEmail, m, x)
  \/ \E c \in {"c1"}, i \in InvIds, u \in Users : AcceptBegin(c, i, u)
  \/ \E c \in Calls : AcceptCommit(c)
  \/ \E c \in Calls : AcceptUniqueViolation(c)

SpecMembers == Init /\ [][MembersNext]_vars

\* invitations addressed to an email, with concurrent createInvitation calls
InviteNext ==
  \/ \E a \in Albums, u \in Creators : CreateAlbum(a, u, FALSE)
  \/ MemberNext
  \/ \E c \in Calls, a \in Albums, u \in Users, r \in ALBUM_ROLE, e \in Emails :
        CreateInvitationRevoke(c, a, u, r, e, 1)
  \/ \E c \in Calls, x \in ExpiresIn : CreateInvitationInsert(c, x)
  \/ \E i \in InvIds, a \in Albums, u \in Users : RevokeInvitation(i, a, u)

SpecInvite == Init /\ [][InviteNext]_vars

\* the clock, the lazy expiry and acceptInvitation
ExpiryNext ==
  \/ \E a \in Albums, u \in Creators : CreateAlbum(a, u, FALSE)
  \/ \E a \in Albums, u \in Creators, r \in ALBUM_ROLE, m \in 1..MaxUsesBound, x \in ExpiresIn :
        LinkCount < MaxLinkInvitations /\ CreateInvitation(a, u, r, NoEmail, m, x)
  \/ \E i \in InvIds : PreviewInvitation(i)
  \/ \E c \in Calls, i \in InvIds, u \in Users : AcceptExpire(c, i, u)
  \/ \E c \in Calls, i \in InvIds, u \in Users : AcceptBegin(c, i, u)
  \/ \E c \in Calls : AcceptCommit(c)
  \/ Tick

SpecExpiry == Init /\ [][ExpiryNext]_vars

\* allowedUserIds as given by callers: empty, one id, a repeated id, two ids
AllowedUserIdsInputs == {<<>>, <<"u2">>, <<"u3">>, <<"u2", "u2">>, <<"u2", "u3">>}
\* visibilityType as given by callers
VisibilityInputs == PHOTO_VISIBILITY \cup {"public"}
\* photoIds as given by callers
PhotoIdsInputs == SUBSET PhotoIds

\* uploads and visibility rewrites one at a time, under changing membership
VisNext ==
  \/ \E a \in Albums, u \in Creators : CreateAlbum(a, u, FALSE)
  \/ MemberNext
  \/ \E p \in PhotoIds, a \in Albums, u \in Users : UploadPhoto(p, a, u)
  \/ \E p \in PhotoIds, t \in VisibilityInputs, al \in AllowedUserIdsInputs, u \in Users :
        UpdatePhotoVisibility(p, t, al, u)
  \/ \E a \in Albums, ps \in PhotoIdsInputs, t \in VisibilityInputs,
        al \in AllowedUserIdsInputs, u \in Users :
        BulkChangeVisibility(a, ps, t, al, u)

SpecVis == Init /\ [][VisNext]_vars

\* the members the owner adds before photos are shared with them
Viewers == {"u2", "u3"}

\* the bulk rewrite statement by statement, one call at a time
BulkNext ==
  \/ \E a \in Albums, u \in Creators : CreateAlbum(a, u, FALSE)
  \/ \E a \in Albums, t \in Viewers, u \in Creators : AddMember(a, t, "contributor", u)
  \/ \E a \in Albums, t \in Viewers, u \in Creators : RemoveMember(a, t, u)
  \/ \E p \in PhotoIds, a \in Albums, u \in Users : UploadPhoto(p, a, u)
  \/ \E a \in Albums, ps \in PhotoIdsInputs, t \in VisibilityInputs,
        al \in AllowedUserIdsInputs, u \in Users :
        BulkChangeVisibilityBegin("c1", a, ps, t, al, u)
  \/ VisibilityUpdate("c1")
  \/ VisibilityDestroy("c1")
  \/ VisibilityInsert("c1")
  \/ VisibilityCommit("c1")
  \/ VisibilityRollback("c1")

SpecBulk == Init /\ [][BulkNext]_vars

\* the photo whose visibility concurrent calls rewrite
SharedPhoto == {"p1"}

\* concurrent setPhotoVisibility calls by the album owner on one photo
RewriteNext ==
  \/ \E a \in Albums, u \in Creators : CreateAlbum(a, u, FALSE)
  \/ \E a \in Albums, t \in Viewers, u \in Creators : AddMember(a, t, "viewer", u)
  \/ \E p \in SharedPhoto, a \in Albums, u \in Creators : UploadPhoto(p, a, u)
  \/ \E c \in Calls, p \in SharedPhoto, t \in VisibilityInputs,
        al \in AllowedUserIdsInputs, u \in Creators :
        SetPhotoVisibilityBegin(c, p, t, al, u)
  \/ \E c \in Calls : VisibilityUpdate(c)
  \/ \E c \in Calls : VisibilityDestroy(c)
  \/ \E c \in Calls : VisibilityDestroyResume(c)
  \/ \E c \in Calls : VisibilityInsert(c)
  \/ \E c \in Calls : VisibilityInsertConflict(c)
  \/ \E c \in Calls : VisibilityCommit(c)
  \/ \E c \in Calls : VisibilityRollback(c)

SpecRewrite == Init /\ [][RewriteNext]_vars

\* the album lifecycle with concurrent updateAlbum and deleteAlbum calls
AlbumNext ==
  \/ \E a \in Albums, u \in Creators, p \in BOOLEAN : CreateAlbum(a, u, p)
  \/ \E a \in Albums, u \in Users, p \in BOOLEAN : UpdateAlbum(a, p, u)
  \/ \E a \in Albums, u \in Users : DeleteAlbum(a, u)
  \/ \E c \in Calls, a \in Albums, u \in Users, p \in BOOLEAN : UpdateAlbumBegin(c, a, p, u)
  \/ \E c \in Calls : UpdateAlbumWrite(c)
  \/ \E c \in Calls, a \in Albums, u \in Users : DeleteAlbumBegin(c, a, u)
  \/ \E c \in Calls : DeleteAlbumWrite(c)
  \/ \E a \in Albums, u \in Users : RestoreAlbum(a, u)
  \/ \E a \in Albums, t \in Users, r \in ALBUM_ROLE, u \in Users : AddMember(a, t, r, u)

SpecAlbum == Init /\ [][AlbumNext]_vars

\* albums, membership and permission overrides
PermNext ==
  \/ \E a \in Albums, u \in Creators, p \in BOOLEAN : CreateAlbum(a, u, p)
  \/ \E a \in Albums, u \in Users, p \in BOOLEAN : UpdateAlbum(a, p, u)
  \/ \E a \in Albums, u \in Users : DeleteAlbum(a, u)
  \/ \E a \in Albums, u \in Users : RestoreAlbum(a, u)
  \/ MemberNext
  \/ \E a \in Albums, t \in Users, act \in PERMISSION_ACTIONS, g \in BOOLEAN, u \in Users :
        SetPermissionOverride(a, t, act, g, u)
  \/ \E a \in Albums, t \in Users, act \in PERMISSION_ACTIONS, u \in Users :
        RemovePermissionOverride(a, t, act, u)

SpecPerm == Init /\ [][PermNext]_vars


\* the handlers with the activity log they write
AuditNext ==
  \/ \E a \in Albums, u \in Creators : CreateAlbum(a, u, FALSE)
  \/ \E a \in Albums, t \in Viewers, r \in {"viewer", "admin"}, u \in Creators :
        AddMember(a, t, r, u)
  \/ \E a \in Albums, t \in Viewers, u \in Creators : RemoveMember(a, t, u)
  \/ \E a \in Albums, t \in Viewers, r \in {"viewer", "admin"}, u \in Creators :
        ChangeMemberRole(a, t, r, u)
  \/ \E a \in Albums, t \in Viewers, g \in BOOLEAN, u \in Creators :
        SetPermissionOverride(a, t, "photo:upload", g, u)
  \/ \E a \in Albums, t \in Viewers, u \in Creators :
        RemovePermissionOverride(a, t, "photo:upload", u)
  \/ \E a \in Albums, u \in Creators, x \in ExpiresIn :
        LinkCount < MaxLinkInvitations /\ CreateInvitation(a, u, "viewer", NoEmail, 1, x)
  \/ \E i \in InvIds, u \in Viewers : AcceptBegin("c1", i, u)
  \/ AcceptCommit("c1")
  \/ \E i \in InvIds, u \in Viewers : DeclineInvitation(i, u)
  \/ \E i \in InvIds, a \in Albums, u \in Creators : RevokeInvitation(i, a, u)
  \/ \E a \in Albums, u \in Creators, p \in BOOLEAN : UpdateAlbum(a, p, u)
  \/ \E p \in SharedPhoto, a \in Albums, u \in Creators : UploadPhoto(p, a, u)
  \/ \E p \in SharedPhoto, t \in PHOTO_VISIBILITY, al \in {<<>>, <<"u2">>}, u \in Creators :
        UpdatePhotoVisibility(p, t, al, u)
  \/ \E a \in Albums, ps \in PhotoIdsInputs, t \in PHOTO_VISIBILITY, al \in {<<>>, <<"u2">>},
        u \in Creators :
        BulkChangeVisibility(a, ps, t, al, u)

SpecAudit == InitAudit /\ [][AuditNext]_vars

\* the members that are neither album owner nor platform operator
PlainMembers == {"u2"}

\* the owner manages membership; overrides are set and removed by members
\* that are neither owner nor platform operator
EscalateNext ==
  \/ \E a \in Albums, u \in Creators : CreateAlbum(a, u, FALSE)
  \/ \E a \in Albums, t \in Viewers, r \in ALBUM_ROLE, u \in Creators : AddMember(a, t, r, u)
  \/ \E a \in Albums, t \in Viewers, r \in ALBUM_ROLE, u \in Creators :
        ChangeMemberRole(a, t, r, u)
  \/ \E a \in Albums, t \in Viewers, u \in Creators : RemoveMember(a, t, u)
  \/ \E a \in Albums, t \in Users, act \in PERMISSION_ACTIONS, g \in BOOLEAN,
        u \in PlainMembers :
        SetPermissionOverride(a, t, act, g, u)
  \/ \E a \in Albums, t \in Users, act \in PERMISSION_ACTIONS, u \in PlainMembers :
        RemovePermissionOverride(a, t, act, u)

SpecEscalate == Init /\ [][EscalateNext]_vars

\* the role-change guard alone
GuardNext ==
  \E r \in GuardInputs, t \in GuardInputs, n \in GuardInputs : CheckRoleChange(r, t, n)

SpecGuard == Init /\ [][GuardNext]_vars

(***************************************************************************)
(* Properties.                                                             *)
(***************************************************************************)
Subjects == Users \cup {NoUser}

\* the decision of the ordered chain, written as one condition per step that allows
ChainAllows(a, userId, action, systemRole) ==
  /\ AlbumFound(a)
  /\ \/ systemRole = "admin"
     \/ userId # NoUser /\ userId = albums[a].ownerId
     \/ action = "album:view" /\ albums[a].isPublic
     \/ /\ userId # NoUser
        /\ members[a][userId] # NoMember
        /\ \/ overrides[a][userId][action] = "grant"
           \/ /\ overrides[a][userId][action] = "none"
              /\ action \in ROLE_PERMISSIONS[members[a][userId]]

\* C1: for every album, subject (the anonymous one included), action and system
\* role, resolvePermission allows exactly when the ordered chain does: operator
\* bypass, album owner, public album:view, then for an authenticated member the
\* override for the action if one exists, else the role table; deny otherwise.
C1_ResolverIsOrderedChain ==
  \A a \in Albums, s \in Subjects, act \in PERMISSION_ACTIONS, sr \in SystemRoles :
    resolvePermission(a, s, act, sr).allowed = ChainAllows(a, s, act, sr)

\* a deny override on an action the member's role permits decides the outcome
C1_Witness ==
  \E a \in Albums, u \in Users :
    /\ AlbumFound(a) /\ ~albums[a].isPublic
    /\ members[a][u] = "admin"
    /\ overrides[a][u]["member:add"] = "deny"
    /\ ~resolvePermission(a, u, "member:add", "user").allowed

\* a member that is neither the album owner nor a platform operator
PlainMember(a, u) ==
  /\ AlbumFound(a)
  /\ members[a][u] # NoMember
  /\ albums[a].ownerId # u

\* C2 as stated: for a member that is neither the album owner nor a platform
\* operator, an override for the action decides the outcome for every role and
\* every action: grant allows, deny denies.
C2_OverrideAlwaysWins ==
  \A a \in Albums, u \in Users, act \in PERMISSION_ACTIONS :
    PlainMember(a, u) =>
      /\ overrides[a][u][act] = "grant" => resolvePermission(a, u, act, "user").allowed
      /\ overrides[a][u][act] = "deny" => ~resolvePermission(a, u, act, "user").allowed

\* C2 amended: for such a member an override decides the outcome over the role
\* table, except that album:view on a public album is allowed before overrides
\* are consulted, so a deny override on album:view has no effect while the album
\* is public.
C2_OverrideWinsOverRole ==
  \A a \in Albums, u \in Users, act \in PERMISSION_ACTIONS :
    PlainMember(a, u) =>
      /\ overrides[a][u][act] = "grant" => resolvePermission(a, u, act, "user").allowed
      /\ overrides[a][u][act] = "deny" =>
           (resolvePermission(a, u, act, "user").allowed
              <=> (act = "album:view" /\ albums[a].isPublic))

\* a deny override takes away an action the role table grants, on a private album
C2_Witness ==
  \E a \in Albums, u \in Users, act \in PERMISSION_ACTIONS :
    /\ PlainMember(a, u) /\ SystemRoleOf(u) = "user"
    /\ ~albums[a].isPublic
    /\ overrides[a][u][act] = "deny"
    /\ act \in ROLE_PERMISSIONS[members[a][u]]
    /\ ~resolvePermission(a, u, act, "user").allowed

\* C3: on a public album, album:view is allowed for every subject, the
\* anonymous one included, whatever membership or overrides exist.
C3_PublicViewAllowed ==
  \A a \in Albums, s \in Subjects, sr \in SystemRoles :
    (AlbumFound(a) /\ albums[a].isPublic) =>
      resolvePermission(a, s, "album:view", sr).allowed

\* a public album whose member holds a deny override on album:view
C3_Witness ==
  \E a \in Albums, u \in Users :
    /\ PlainMember(a, u) /\ albums[a].isPublic
    /\ overrides[a][u]["album:view"] = "deny"
    /\ resolvePermission(a, u, "album:view", "user").allowed
    /\ resolvePermission(a, NoUser, "album:view", "user").allowed

OwnerRows(a) == { u \in Users : members[a][u] = "owner" }

\* C4: every album has exactly one membership row with role owner, the row of
\* the user that created the album, after any sequence of createAlbum,
\* addMember, removeMember, changeMemberRole and invitation create/accept.
C4_ExactlyOneOwner ==
  \A a \in Albums :
    albums[a].exists => OwnerRows(a) = {albums[a].ownerId}

\* an album with a member who joined by invitation and a member with role admin
C4_Witness ==
  \E a \in Albums, u \in Users, i \in InvIds :
    /\ albums[a].exists
    /\ members[a][u] = "admin"
    /\ invitations[i].albumId = a /\ joined[i] >= 1
    /\ Cardinality({ m \in Users : members[a][m] # NoMember }) = 3

\* the album roles from lowest to highest
RoleOrder == <<"viewer", "contributor", "admin", "owner">>
Position(role) == CHOOSE k \in 1..Len(RoleOrder) : RoleOrder[k] = role

\* C5: for album roles, assertRoleChangeAllowed rejects exactly when the new
\* role is owner, or the target's rank is not below the requester's, or the
\* new role's rank is not below the requester's.
C5_GuardRejectsExactly ==
  (guardArgs.res # "none"
     /\ {guardArgs.requesterRole, guardArgs.targetRole, guardArgs.newRole} \subseteq ALBUM_ROLE)
  => /\ guardArgs.res \in {"ok", "Forbidden"}
     /\ guardArgs.res = "Forbidden" <=>
          \/ guardArgs.newRole = "owner"
          \/ Position(guardArgs.targetRole) >= Position(guardArgs.requesterRole)
          \/ Position(guardArgs.newRole) >= Position(guardArgs.requesterRole)

\* an admin moved a viewer to contributor and the guard let it pass
C5_Witness ==
  guardArgs = [requesterRole |-> "admin", targetRole |-> "viewer",
               newRole |-> "contributor", res |-> "ok"]

\* C6: addMember, changeMemberRole and createInvitation apply the role-change
\* guard identically: a requester that holds a membership row never grants
\* owner or a role whose rank is not below their own, also when the requester
\* is a platform operator or passes the permission check by a grant override.
C6_GuardAppliedIdentically ==
  \A a \in Albums, req \in Users, t \in Users, role \in ALBUM_ROLE :
    (AlbumFound(a) /\ members[a][req] # NoMember) =>
      LET below == role # "owner" /\ Position(role) < Position(members[a][req])
          sr == SystemRoleOf(req)
          permitted == /\ assertPermission(a, req, "member:add", sr) = "ok"
                       /\ assertPermission(a, req, "member:change_role", sr) = "ok"
                       /\ assertPermission(a, req, "invitation:create", sr) = "ok"
          invited == createInvitationResult(a, req, role, NoEmail) = "ok"
      IN  /\ addMemberResult(a, t, role, req) = "ok" => below
          /\ changeMemberRoleResult(a, t, role, req) = "ok" => below
          /\ invited => below
          /\ (permitted /\ members[a][t] = NoMember) =>
                (addMemberResult(a, t, role, req) = "ok" <=> invited)
          /\ (permitted /\ members[a][t] = "viewer") =>
                (changeMemberRoleResult(a, t, role, req) = "ok" <=> invited)

\* C7: an invitation whose status is not pending never changes status again,
\* under any sequence and interleaving of accept, decline, revoke, preview
\* and expiry.
C7_TerminalStatusIsFinal ==
  [][ \A i \in InvIds :
        (invitations[i].exists /\ invitations[i].status # "pending")
          => invitations'[i].status = invitations[i].status ]_vars

\* C8: useCount of an invitation equals the number of memberships created by
\* accepting it, in every reachable state.
C8_UseCountCountsMemberships ==
  \A i \in InvIds : invitations[i].exists => invitations[i].useCount = joined[i]

\* C9: when acceptInvitation calls race on a single-use token, at most one of
\* them creates a membership.
C9_SingleUseRace ==
  \A i \in InvIds :
    (invitations[i].exists /\ invitations[i].maxUses = 1) => joined[i] <= 1

\* C10: with maxUses = N no more than N accepts succeed; the status is pending
\* while useCount < N and accepted once useCount = N, and useCount never
\* exceeds maxUses.
C10_MaxUsesRespected ==
  \A i \in InvIds :
    invitations[i].exists =>
      /\ joined[i] <= invitations[i].maxUses
      /\ invitations[i].useCount <= invitations[i].maxUses
      /\ invitations[i].status = "accepted" => invitations[i].useCount = invitations[i].maxUses
      /\ invitations[i].status = "pending" => invitations[i].useCount < invitations[i].maxUses

PendingFor(a, e) ==
  { i \in InvIds : /\ invitations[i].exists
                   /\ invitations[i].albumId = a
                   /\ invitations[i].invitedEmail = e
                   /\ invitations[i].status = "pending" }

\* C11: in every reachable state there is at most one pending invitation per
\* (album, invitedEmail), also when two createInvitation calls for the same
\* album and email run concurrently.
C11_OnePendingPerEmail ==
  \A a \in Albums, e \in Emails : Cardinality(PendingFor(a, e)) <= 1

\* a pending invitation whose expiresAt the clock has reached
Lapsed(i) ==
  /\ invitations[i].exists
  /\ invitations[i].status = "pending"
  /\ now >= invitations[i].expiresAt

Viewer == Users \cup {NoUser}

\* C13: for every photo, subject (or null) and album owner id,
\* resolvePhotoVisibility allows exactly when the photo is album_default, or
\* the subject is the album owner or the uploader, or the photo is restricted
\* and the subject is in its allowlist; a hidden photo is denied to everybody
\* else whatever their album or platform role.
C13_VisibilityDecision ==
  \A p \in PhotoIds, userId \in Viewer, albumOwnerId \in Viewer :
    photos[p].exists =>
      /\ resolvePhotoVisibility(p, userId, albumOwnerId).res = "ok"
      /\ resolvePhotoVisibility(p, userId, albumOwnerId).allowed
           <=> \/ photos[p].visibilityType = "album_default"
               \/ userId # NoUser /\ userId = albumOwnerId
               \/ userId # NoUser /\ userId = photos[p].uploadedById
               \/ photos[p].visibilityType = "restricted" /\ userId \in allowlist[p]

\* a hidden photo whose uploader is now a viewer, beside the platform operator
\* holding the admin role: the uploader is allowed, the operator denied
C13_Witness ==
  \E p \in PhotoIds :
    /\ photos[p].exists /\ photos[p].visibilityType = "hidden"
    /\ photos[p].uploadedById = "u2"
    /\ members[photos[p].albumId]["u2"] = "viewer"
    /\ members[photos[p].albumId]["u3"] = "admin"
    /\ resolvePhotoVisibility(p, "u2", albums[photos[p].albumId].ownerId).allowed
    /\ ~resolvePhotoVisibility(p, "u3", albums[photos[p].albumId].ownerId).allowed

\* the state a committed rewrite to visibilityType with allowedUserIds leaves
rewritten(p, visibilityType, allowed) ==
  /\ photos'[p] = [photos[p] EXCEPT !.visibilityType = visibilityType]
  /\ allowlist'[p] = IF visibilityType = "restricted" THEN allowed ELSE {}

untouched(p) == photos'[p] = photos[p] /\ allowlist'[p] = allowlist[p]

\* the bulk permission pre-check of one photo
bulkPermits(a, p, userId) ==
  \/ photos[p].uploadedById = userId
  \/ resolvePermission(a, userId, "photo:upload", SystemRoleOf(userId)).allowed

\* every batch with a missing or denied photo is rejected, naming those photos
bulkRejects ==
  \A a \in Albums, ps \in PhotoIdsInputs \ {{}}, t \in PHOTO_VISIBILITY,
     al \in AllowedUserIdsInputs, u \in Users :
     LET res == bulkChangeVisibilityResult(a, ps, t, al, u, SystemRoleOf(u))
         missing == { p \in ps : ~(photos[p].exists /\ photos[p].albumId = a) }
         denied == { p \in ps \ missing : ~bulkPermits(a, p, u) }
         argsValid == ~(t = "restricted" /\ Len(al) = 0)
     IN  /\ (missing # {} \/ denied # {}) => res # "ok"
         /\ (argsValid /\ missing # {}) =>
              res = "NotFound" /\ ps \ photosFound(a, ps) = missing
         /\ (argsValid /\ missing = {} /\ denied # {}) =>
              /\ res = "Forbidden"
              /\ deniedPhotoIds(a, ps, u, SystemRoleOf(u)) = denied

\* a transaction begins only for a batch that passed the pre-check whole, a
\* commit applies the batch whole, a rollback and every other step apply nothing
bulkAppliesWhole ==
  /\ \A c \in Calls :
       /\ (vcalls[c].pc = "idle" /\ vcalls'[c].pc = "update") =>
            \E b \in Albums, v \in Users :
              \A p \in vcalls'[c].photoIds :
                photos[p].exists /\ photos[p].albumId = b /\ bulkPermits(b, p, v)
       /\ VisibilityCommit(c) =>
            \A p \in PhotoIds :
              IF p \in vcalls[c].photoIds
              THEN rewritten(p, vcalls[c].visibilityType, vcalls[c].allowed)
              ELSE untouched(p)
       /\ VisibilityRollback(c) => \A p \in PhotoIds : untouched(p)
  /\ (\E p \in PhotoIds : photos[p].exists /\ ~untouched(p))
       => \E c \in Calls : VisibilityCommit(c)

completeResult(p) ==
  IF photos[p].visibilityType = "restricted" THEN allowlist[p] # {} ELSE allowlist[p] = {}

\* C15: setPhotoVisibility replaces a photo's visibility state atomically:
\* whatever rewrites of the same photo overlap, the committed state is the
\* complete result of one of them (the type of a call together with that
\* call's allowlist, never one call's type with another call's rows), and a
\* call that fails leaves the type and the allowlist rows as they were.
C15_AtomicReplace ==
  /\ [](\A p \in PhotoIds : photos[p].exists => completeResult(p))
  /\ [][ \A c \in Calls :
            (VisibilityRollback(c) \/ VisibilityInsertConflict(c)) =>
              \A p \in PhotoIds : untouched(p) ]_vars

\* the ids of allowedUserIds that are not members of album a
nonMembers(a, allowedUserIds) ==
  { id \in Range(allowedUserIds) : members[a][id] = NoMember }

\* the three reasons the visibility validation names
mustReject(a, visibilityType, allowedUserIds) ==
  \/ visibilityType = "restricted" /\ Len(allowedUserIds) = 0
  \/ visibilityType # "restricted" /\ Len(allowedUserIds) > 0
  \/ nonMembers(a, allowedUserIds) # {}

\* C16: a visibility change, single or bulk, of an existing photo by a
\* permitted actor is rejected with a Validation error exactly when the type
\* is restricted with an empty allowlist, or not restricted with a non-empty
\* allowlist, or some id of the allowlist is not a member of the album; the
\* ids reported are then exactly allowedUserIds minus the album's members.
C16_ValidationExactly ==
  \A a \in Albums, t \in PHOTO_VISIBILITY, al \in AllowedUserIdsInputs, u \in Users :
    /\ \A p \in PhotoIds :
         LET res == updatePhotoVisibilityRequest(p, t, al, u)
         IN  (photos[p].exists /\ photos[p].albumId = a /\ res \in {"ok", "Validation"}) =>
               /\ res = "Validation" <=> mustReject(a, t, al)
               /\ (t = "restricted" /\ nonMembers(a, al) # {})
                    => invalidUserIds(a, al) = nonMembers(a, al)
    /\ \A ps \in PhotoIdsInputs \ {{}} :
         LET res == bulkChangeVisibilityRequest(a, ps, t, al, u)
         IN  (photosFound(a, ps) = ps /\ res \in {"ok", "Validation"}) =>
               /\ res = "Validation" <=> mustReject(a, t, al)
               /\ (t = "restricted" /\ nonMembers(a, al) # {})
                    => invalidUserIds(a, al) = nonMembers(a, al)

\* admin-equivalent permission on album a as setPhotoVisibility asks for it
adminEquivalent(a, userId) ==
  resolvePermission(a, userId, "photo:delete", SystemRoleOf(userId)).allowed

\* C17: for every actor and photo of an album, bulkChangeVisibility accepts
\* the photo only when the actor is its uploader or holds admin-equivalent
\* permission on the album, and it accepts exactly the (actor, photo) pairs
\* the single-photo setPhotoVisibility accepts.
C17_BulkMatchesSingle ==
  \A a \in Albums, p \in PhotoIds, u \in Users :
    (photos[p].exists /\ photos[p].albumId = a) =>
      LET bulk == bulkChangeVisibilityResult(a, {p}, "hidden", <<>>, u, SystemRoleOf(u))
          single == setPhotoVisibilityResult(p, "hidden", <<>>, u, SystemRoleOf(u))
      IN  /\ bulk = "ok" => (photos[p].uploadedById = u \/ adminEquivalent(a, u))
          /\ bulk = "ok" <=> single = "ok"

\* the stored publicToken is set exactly when the album is public
tokenIffPublic ==
  \A a \in Albums : albums[a].exists => (albums[a].publicToken # "null" <=> albums[a].isPublic)

\* a step that takes a public album private leaves no stored token, and the
\* token it had resolves to NotFound right after the step
privateDropsToken ==
  \A a \in Albums :
    (albums[a].exists /\ albums[a].isPublic /\ ~albums'[a].isPublic) =>
      /\ albums'[a].publicToken = "null"
      /\ getAlbumByPublicToken(albums[a].publicToken)' = "NotFound"

\* C18: in every reachable state, whatever sequence and interleaving of
\* createAlbum, updateAlbum, deleteAlbum and restoreAlbum calls led to it, an
\* album's publicToken is non-null if and only if isPublic is true; right
\* after an album with token T is made private, the stored token is null and
\* getAlbumByPublicToken(T) returns NotFound.
C18_TokenIffPublic == []tokenIffPublic /\ [][privateDropsToken]_vars

\* an album made private, its token gone, while another updateAlbum or
\* deleteAlbum call still holds the row it loaded when the album was public
C18_Witness ==
  \E a \in Albums, c \in Calls :
    /\ albums[a].exists /\ ~albums[a].deleted
    /\ ~albums[a].isPublic /\ albums[a].publicToken = "null"
    /\ getAlbumByPublicToken("tok") = "NotFound"
    /\ acalls[c].pc # "idle" /\ acalls[c].albumId = a
    /\ acalls[c].read.isPublic /\ acalls[c].read.publicToken = "tok"

\* C19: for an album that does not exist or is soft-deleted the resolver
\* answers "Album not found" for every subject, action and systemRole, the
\* platform operator and the album's own owner included, and the assert
\* variant throws NotFound; on an album that is found, a denial makes the
\* assert variant throw Forbidden, never NotFound.
C19_NotFoundPrecedesBypass ==
  \A a \in Albums, userId \in Subjects, action \in PERMISSION_ACTIONS, systemRole \in SystemRoles :
    LET r == resolvePermission(a, userId, action, systemRole)
        thrown == assertPermission(a, userId, action, systemRole)
    IN  /\ ~AlbumFound(a) =>
             /\ ~r.allowed /\ r.reason = "Album not found"
             /\ thrown = "NotFound"
        /\ (AlbumFound(a) /\ ~r.allowed) => thrown = "Forbidden"
        /\ (AlbumFound(a) /\ r.allowed) => thrown = "ok"

\* a soft-deleted public album with an override granted to a member: owner,
\* platform operator and that member all get "Album not found"
C19_Witness ==
  \E a \in Albums :
    /\ albums[a].exists /\ albums[a].deleted
    /\ \E u \in Users, act \in PERMISSION_ACTIONS :
         /\ overrides[a][u][act] = "grant"
         /\ resolvePermission(a, u, act, "user").reason = "Album not found"
    /\ resolvePermission(a, albums[a].ownerId, "album:view", "user").reason = "Album not found"
    /\ assertPermission(a, "u3", "album:view", "admin") = "NotFound"

\* C20: for every album state, subject (or null) and systemRole,
\* resolveAlbumAccess returns a context exactly when the resolver allows
\* "album:view", and the capability flags of the context equal the resolver's
\* decisions for the matching actions, overrides included.
C20_ContextMatchesResolver ==
  \A a \in Albums, userId \in Subjects, systemRole \in SystemRoles :
    LET ctx == resolveAlbumAccess(a, userId, systemRole)
        allows(action) == resolvePermission(a, userId, action, systemRole).allowed
    IN  /\ ctx.res = "ok" <=> allows("album:view")
        /\ ctx.res = "ok" =>
             /\ ctx.canEdit = allows("album:edit")
             /\ ctx.canDelete = allows("album:delete")
             /\ ctx.canManageMembers = allows("member:add")
             /\ ctx.canUploadPhoto = allows("photo:upload")
             /\ ctx.canComment = allows("comment:create")

\* the rank the guard compares for the inviter of an invitation at this moment:
\* the rank of the inviter's membership, none when the inviter is no member,
\* and the top rank for a platform operator, whom the guard is not applied to
inviterRank(a, u) ==
  IF SystemRoleOf(u) = "admin" THEN ALBUM_ROLE_RANK["owner"]
  ELSE RankOrZero(members[a][u])

\* C21: every membership acceptInvitation creates passes the role-change
\* guard at the moment of acceptance: its role is never owner and ranks
\* strictly below the inviter's rank in the album at that time, also when the
\* inviter was demoted or removed after creating the invitation.
C21_AcceptPassesGuard ==
  [][ \A c \in Calls :
        AcceptCommit(c) =>
          LET inv == invitations[calls[c].inv]
          IN  /\ inv.invitedRole # "owner"
              /\ ALBUM_ROLE_RANK[inv.invitedRole] < inviterRank(inv.albumId, inv.invitedById)
    ]_vars

\* the step appends one row to album_activity_logs
emitsOneRecord ==
  /\ Len(audit'.rows) = Len(audit.rows) + 1
  /\ SubSeq(audit'.rows, 1, Len(audit.rows)) = audit.rows

\* the step called logActivity and AlbumActivityLog.create failed
writeFailed == audit'.attempts = audit.attempts + 1 /\ audit'.failed # "no"

\* the rows written so far are still there, unchanged
recordsKept ==
  /\ Len(audit'.rows) >= Len(audit.rows)
  /\ \A k \in 1..Len(audit.rows) : audit'.rows[k] = audit.rows[k]

\* the step is one of the state-changing operations, completed
stateChangingStep ==
  \/ \E a \in Albums, t \in Users, act \in PERMISSION_ACTIONS, g \in BOOLEAN, u \in Users :
        SetPermissionOverride(a, t, act, g, u)
  \/ \E a \in Albums, t \in Users, act \in PERMISSION_ACTIONS, u \in Users :
        RemovePermissionOverride(a, t, act, u)
  \/ \E a \in Albums, t \in Users, r \in ALBUM_ROLE, u \in Users : ChangeMemberRole(a, t, r, u)
  \/ \E p \in PhotoIds, t \in PHOTO_VISIBILITY, al \in AllowedUserIdsInputs, u \in Users :
        UpdatePhotoVisibility(p, t, al, u)
  \/ \E a \in Albums, ps \in PhotoIdsInputs, t \in PHOTO_VISIBILITY,
        al \in AllowedUserIdsInputs, u \in Users :
        BulkChangeVisibility(a, ps, t, al, u)
  \/ \E a \in Albums, u \in Users, r \in ALBUM_ROLE, m \in 1..MaxUsesBound, x \in ExpiresIn :
        CreateInvitation(a, u, r, NoEmail, m, x)
  \/ \E c \in Calls : AcceptCommit(c)
  \/ \E i \in InvIds, u \in Users : DeclineInvitation(i, u)
  \/ \E i \in InvIds, a \in Albums, u \in Users : RevokeInvitation(i, a, u)

\* C22: every successful state-changing operation (permission override set,
\* override remove, member role change, photo visibility change single and
\* bulk, invitation create, accept, decline and revoke) appends exactly one
\* row to the activity log, unless the write itself failed and was
\* swallowed, and no step changes or removes a row written before.
C22_OneRecordPerChange ==
  [][ /\ recordsKept
      /\ stateChangingStep => (emitsOneRecord \/ writeFailed) ]_vars

\* C23: when logActivity fails during addMember, removeMember,
\* changeMemberRole, acceptInvitation, updateAlbum, a single or a bulk
\* visibility change, the operation completes and its state change is the
\* one a successful log write would have left committed.
C23_LogFailureHarmless ==
  [][ writeFailed =>
        /\ \A a \in Albums, t \in Users, r \in ALBUM_ROLE, u \in Users :
             /\ AddMember(a, t, r, u) => members'[a][t] = r
             /\ ChangeMemberRole(a, t, r, u) => members'[a][t] = r
        /\ \A a \in Albums, t \in Users, u \in Users :
             RemoveMember(a, t, u) => members'[a][t] = NoMember
        /\ \A c \in Calls :
             AcceptCommit(c) =>
               members'[invitations[calls[c].inv].albumId][calls[c].userId]
                 = invitations[calls[c].inv].invitedRole
        /\ \A a \in Albums, u \in Users, p \in BOOLEAN :
             UpdateAlbum(a, p, u) => albums'[a].isPublic = p
        /\ \A p \in PhotoIds, t \in PHOTO_VISIBILITY, al \in AllowedUserIdsInputs, u \in Users :
             UpdatePhotoVisibility(p, t, al, u) => rewritten(p, t, Range(al))
        /\ \A a \in Albums, ps \in PhotoIdsInputs, t \in PHOTO_VISIBILITY,
              al \in AllowedUserIdsInputs, u \in Users :
             BulkChangeVisibility(a, ps, t, al, u) =>
               \A p \in ps : rewritten(p, t, Range(al)) ]_vars

\* C24: creating an invitation requires album role contributor or higher: a
\* member without overrides can create a (viewer) invitation exactly when its
\* role is contributor, admin or owner.
C24_InviteNeedsContributor ==
  \A a \in Albums, u \in Users :
    (/\ AlbumFound(a)
     /\ SystemRoleOf(u) # "admin"
     /\ members[a][u] # NoMember
     /\ overrides[a][u] = NoOverrides) =>
      (createInvitationResult(a, u, "viewer", NoEmail) = "ok"
         <=> members[a][u] \in {"contributor", "admin", "owner"})

\* the invitation has used up its maxUses (0 means unlimited)
exhausted(inv) == inv.maxUses # 0 /\ inv.useCount >= inv.maxUses

\* C25: previewInvitation answers Gone for every invitation that is expired
\* (by status or by the clock), revoked or exhausted, whatever its maxUses,
\* and returns the details only for an invitation that can still be accepted.
C25_PreviewGoneWhenUnusable ==
  \A i \in InvIds :
    invitations[i].exists =>
      LET inv == invitations[i]
          res == previewInvitationResult(i)
      IN  /\ (\/ inv.status = "expired"
              \/ now >= inv.expiresAt
              \/ inv.status = "revoked"
              \/ exhausted(inv)) => res = "Gone"
          /\ res = "ok" => isValid(inv)

\* the rank removeMember compares the target against: the requester's role in
\* the album, or owner rank for a platform operator who is not a member
requesterRank(a, u) ==
  IF members[a][u] # NoMember THEN ALBUM_ROLE_RANK[members[a][u]] ELSE ALBUM_ROLE_RANK["owner"]

\* the cases in which removeMember is to delete the membership of t
mayRemove(a, t, u) ==
  /\ members[a][t] # "owner"
  /\ \/ u = t
     \/ /\ assertPermission(a, u, "member:remove", SystemRoleOf(u)) = "ok"
        /\ ALBUM_ROLE_RANK[members[a][t]] < requesterRank(a, u)

\* removeMember answers ok exactly in those cases, NotFound or Forbidden otherwise
removeDecides ==
  \A a \in Albums, t \in Users, u \in Users :
    LET res == removeMemberResult(a, t, u)
    IN  /\ res \in {"ok", "NotFound", "Forbidden"}
        /\ (~AlbumFound(a) \/ members[a][t] = NoMember) => res = "NotFound"
        /\ (AlbumFound(a) /\ members[a][t] # NoMember) => (res = "ok" <=> mayRemove(a, t, u))

\* a membership disappears only in a removeMember step, one at a time, and
\* only in those cases
removeDeletes ==
  \A a \in Albums, t \in Users :
    (members[a][t] # NoMember /\ members'[a][t] = NoMember) =>
      /\ \E u \in Users : RemoveMember(a, t, u)
      /\ \A u \in Users :
           RemoveMember(a, t, u) =>
             /\ AlbumFound(a) /\ mayRemove(a, t, u)
             /\ members' = [members EXCEPT ![a][t] = NoMember]

\* C26: removeMember deletes the target membership exactly when the target
\* is not the owner and either the requester is the target or the requester
\* passes 'member:remove' and the target's rank is strictly below the
\* requester's; otherwise it answers NotFound or Forbidden and no membership
\* changes.
C26_RemoveExactly == []removeDecides /\ [][removeDeletes]_vars

\* an admin who may remove a contributor and itself, but not the platform
\* operator who joined as admin
C26_Witness ==
  /\ members["a1"]["u2"] = "admin" /\ members["a1"]["u3"] = "admin"
  /\ removeMemberResult("a1", "u3", "u2") = "Forbidden"
  /\ removeMemberResult("a1", "u2", "u2") = "ok"
  /\ removeMemberResult("a1", "u1", "u2") = "Forbidden"

\* C27: no privilege escalation through overrides: when every override has
\* been set by members that are neither the album owner nor a platform
\* operator (on themselves or on any other member), a non-owner member is
\* allowed no action outside its role's table entry.
C27_NoEscalation ==
  \A a \in Albums, u \in Users :
    (/\ AlbumFound(a)
     /\ SystemRoleOf(u) # "admin"
     /\ albums[a].ownerId # u
     /\ members[a][u] # NoMember) =>
      \A act \in PERMISSION_ACTIONS :
        resolvePermission(a, u, act, SystemRoleOf(u)).allowed =>
          \/ act \in ROLE_PERMISSIONS[members[a][u]]
          \/ act = "album:view" /\ albums[a].isPublic

\* C28: every subject that resolvePhotoVisibility allows to view a
\* restricted photo through the photo's allowlist (neither the album owner
\* nor the uploader) is a current member of the photo's album, also after
\* removeMember has removed a user.
C28_AllowlistedAreMembers ==
  \A p \in PhotoIds, u \in Users :
    LET a == photos[p].albumId
    IN  (/\ photos[p].exists
         /\ photos[p].visibilityType = "restricted"
         /\ u # albums[a].ownerId
         /\ u # photos[p].uploadedById
         /\ resolvePhotoVisibility(p, u, albums[a].ownerId).allowed) =>
          /\ u \in allowlist[p]
          /\ members[a][u] # NoMember

\* C29: for every photo, subject (or none) and album owner id, the photo
\* satisfies the WHERE clause built by buildVisibilityFilter exactly when
\* resolvePhotoVisibility returns allowed for it.
C29_FilterMatchesResolver ==
  \A p \in PhotoIds, u \in Subjects, o \in Subjects :
    photos[p].exists =>
      (satisfiesWhere(p, buildVisibilityFilter(u, o), u)
         <=> resolvePhotoVisibility(p, u, o).allowed)

\* a restricted photo uploaded by a member who is not on its allowlist, listed
\* for the uploader and for the user on the allowlist, beside a hidden photo
\* that is listed for neither
C29_Witness ==
  /\ photos["p1"].exists /\ photos["p1"].visibilityType = "restricted"
  /\ photos["p1"].uploadedById = "u2" /\ allowlist["p1"] = {"u3"}
  /\ photos["p2"].exists /\ photos["p2"].visibilityType = "hidden"
  /\ photos["p2"].uploadedById = "u1"
  /\ satisfiesWhere("p1", buildVisibilityFilter("u2", "u1"), "u2")
  /\ satisfiesWhere("p1", buildVisibilityFilter("u3", "u1"), "u3")
  /\ ~satisfiesWhere("p1", buildVisibilityFilter(NoUser, "u1"), NoUser)
  /\ ~satisfiesWhere("p2", buildVisibilityFilter("u3", "u1"), "u3")

\* C30: whatever uploadPhoto, setPhotoVisibility and bulkChangeVisibility
\* calls have run, successful or failed, a photo has at least one allowlist
\* row exactly when its visibilityType is restricted.
C30_RowsIffRestricted ==
  \A p \in PhotoIds :
    photos[p].exists => (allowlist[p] # {} <=> photos[p].visibilityType = "restricted")

====
